---- MODULE Spec2Model ----
(***************************************************************************)
(* A model of the SailPoint MCP server (src/src/index.ts): the OAuth2      *)
(* token cache, the singleton API client, the tool dispatcher, the error   *)
(* formatter and the call-tool handler.                                    *)
(*                                                                         *)
(* JavaScript values are tagged records; an object is a sequence of        *)
(* key/value entries in insertion order.  A path is the sequence of its    *)
(* "/"-separated segments: <<"v3", "accounts", "a1">> is /v3/accounts/a1.  *)
(***************************************************************************)
EXTENDS Integers, Sequences, FiniteSets, TLC

VARIABLES
  env,          \* the four environment-derived constants (index.ts 13-16)
  now,          \* Date.now(), in milliseconds
  accessToken,  \* token cache: value (index.ts 19)
  tokenExpiry,  \* token cache: expiry in ms (index.ts 20)
  apiClient,    \* the cached axios instance, NoClient when null (index.ts 23)
  clients,      \* clients[c]: defaults.headers.common.Authorization of instance c
  pc,           \* pc[i]: where invocation i is suspended
  call,         \* call[i]: request.params of invocation i
  frame,        \* frame[i]: locals of getAccessToken / getApiClient
  request,      \* request[i]: the domain HTTP request invocation i issued
  response,     \* response[i]: what the call handler returned (or threw)
  exchanges,    \* exchanges[i]: credential-exchange requests issued by i
  domainCalls,  \* domainCalls[i]: domain requests issued by i
  nCalls,       \* number of invocations started so far
  server,       \* the process: where main is, and what it wrote to stderr
  shaped        \* input and output of the dispatcher rule (SpecDispatch)

vars == <<env, now, accessToken, tokenExpiry, apiClient, clients, pc, call,
          frame, request, response, exchanges, domainCalls, nCalls, server, shaped>>

(***************************************************************************)
(* Bounds of the model.                                                    *)
(***************************************************************************)
MaxNow == 2      \* the clock runs from 0 to MaxNow seconds
MaxCalls == 3    \* invocations started in one behaviour
MaxIds == 2      \* length of the id lists passed to the create tools

(***************************************************************************)
(* JavaScript values.                                                      *)
(***************************************************************************)
Undefined == [k |-> "undefined"]
Null == [k |-> "null"]
Num(n) == [k |-> "number", v |-> n]
Str(s) == [k |-> "string", v |-> s]
Bool(b) == [k |-> "boolean", v |-> b]
Arr(s) == [k |-> "array", v |-> s]
Obj(s) == [k |-> "object", v |-> s]
Entry(key, val) == [key |-> key, val |-> val]

\* ToBoolean
Truthy(x) ==
  CASE x.k = "undefined" -> FALSE
    [] x.k = "null" -> FALSE
    [] x.k = "number" -> x.v # 0
    [] x.k = "string" -> x.v # ""
    [] x.k = "boolean" -> x.v
    [] OTHER -> TRUE

\* a || b
OrElse(a, b) == IF Truthy(a) THEN a ELSE b

\* property access x.key throws a TypeError exactly on undefined and null
Nullish(x) == x.k \in {"undefined", "null"}

\* o.key for a value that is not nullish: own entries of an object, nothing
\* on a primitive or an array (only data keys are read by the program)
Get(o, key) ==
  IF o.k = "object" /\ \E n \in 1..Len(o.v) : o.v[n].key = key
  THEN o.v[CHOOSE n \in 1..Len(o.v) : o.v[n].key = key].val
  ELSE Undefined

\* o?.key
GetOpt(o, key) == IF Nullish(o) THEN Undefined ELSE Get(o, key)

\* o.key = val: replaces the value of an existing key in place, else appends
Put(o, key, val) ==
  IF \E n \in 1..Len(o.v) : o.v[n].key = key
  THEN Obj([n \in 1..Len(o.v) |->
              IF o.v[n].key = key THEN Entry(key, val) ELSE o.v[n]])
  ELSE Obj(Append(o.v, Entry(key, val)))

Digit(d) ==
  CASE d = 0 -> "0" [] d = 1 -> "1" [] d = 2 -> "2" [] d = 3 -> "3"
    [] d = 4 -> "4" [] d = 5 -> "5" [] d = 6 -> "6" [] d = 7 -> "7"
    [] d = 8 -> "8" [] d = 9 -> "9"

RECURSIVE NatToStr(_)
NatToStr(n) == IF n < 10 THEN Digit(n) ELSE NatToStr(n \div 10) \o Digit(n % 10)

RECURSIVE JoinStr(_, _)
\* Array.prototype.join on a sequence of strings
JoinStr(s, sep) ==
  IF s = <<>> THEN ""
  ELSE IF Len(s) = 1 THEN s[1]
  ELSE s[1] \o sep \o JoinStr(Tail(s), sep)

\* String(x) / template-literal conversion of the values the model uses
ToStr(x) ==
  CASE x.k = "undefined" -> "undefined"
    [] x.k = "null" -> "null"
    [] x.k = "number" -> NatToStr(x.v)
    [] x.k = "string" -> x.v
    [] x.k = "boolean" -> IF x.v THEN "true" ELSE "false"
    [] x.k = "array" -> "[array]"
    [] OTHER -> "[object Object]"

\* the element conversion of Array.prototype.join: "" for undefined and null
JoinItem(x) == IF Nullish(x) THEN "" ELSE ToStr(x)

(***************************************************************************)
(* Errors.                                                                 *)
(***************************************************************************)
\* Outcome of a call: it returns a value or throws an error
Return(v) == [k |-> "return", v |-> v]
Throw(e) == [k |-> "throw", error |-> e]

\* new Error(message)
NewError(msg) == [k |-> "Error", message |-> msg]
\* the TypeError V8 raises for reading property prop of undefined or null
NewTypeError(x, prop) ==
  [k |-> "TypeError",
   message |-> "Cannot read properties of " \o ToStr(x)
               \o " (reading '" \o prop \o "')"]
\* an AxiosError with an HTTP response (non-2xx)
HttpError(status, data) ==
  [k |-> "AxiosError",
   message |-> "Request failed with status code " \o NatToStr(status),
   response |-> [status |-> status, data |-> data]]
\* an AxiosError without a response (network failure, timeout)
TransportError(msg) == [k |-> "AxiosError", message |-> msg]

\* String(error) for Error objects: "<name>: <message>"
ErrorToString(e) == e.k \o ": " \o e.message

(***************************************************************************)
(* Environment (index.ts 13-16).                                           *)
(***************************************************************************)
\* process.env.X || fallback
EnvOr(raw, fallback) == IF raw = "" THEN fallback ELSE raw

Environments ==
  [SAILPOINT_BASE_URL : {EnvOr(u, "") : u \in {"", "https://acme.api.identitynow.com"}},
   SAILPOINT_CLIENT_ID : {EnvOr(c, "") : c \in {"", "client-1"}},
   SAILPOINT_CLIENT_SECRET : {EnvOr(c, "") : c \in {"", "secret-1"}},
   SAILPOINT_API_VERSION : {EnvOr(v, "v3") : v \in {"", "v3", "v2025"}}]

(***************************************************************************)
(* validateCredentials (index.ts 115-135).                                 *)
(***************************************************************************)
\* mutant: the client id test reads the client secret
MissingVarsWrongTest(e) ==
  (IF e.SAILPOINT_BASE_URL = "" THEN <<"SAILPOINT_BASE_URL">> ELSE <<>>)
  \o (IF e.SAILPOINT_CLIENT_SECRET = "" THEN <<"SAILPOINT_CLIENT_ID">> ELSE <<>>)
  \o (IF e.SAILPOINT_CLIENT_SECRET = "" THEN <<"SAILPOINT_CLIENT_SECRET">> ELSE <<>>)

\* missingVars after the three pushes
MissingVars(e) ==
  (IF e.SAILPOINT_BASE_URL = "" THEN <<"SAILPOINT_BASE_URL">> ELSE <<>>)
  \o (IF e.SAILPOINT_CLIENT_ID = "" THEN <<"SAILPOINT_CLIENT_ID">> ELSE <<>>)
  \o (IF e.SAILPOINT_CLIENT_SECRET = "" THEN <<"SAILPOINT_CLIENT_SECRET">> ELSE <<>>)

\* index.ts 131-132: the advice that follows the list of missing variables
CredentialsAdvice ==
  "Please set SAILPOINT_BASE_URL to your tenant API URL "
  \o "(e.g., https://acme.api.identitynow.com), "
  \o "and SAILPOINT_CLIENT_ID and SAILPOINT_CLIENT_SECRET "
  \o "from your SailPoint tenant Personal Access Token."

\* index.ts 130-132
MissingVarsMessage(missing) ==
  "Missing required environment variables: " \o JoinStr(missing, ", ") \o ". "
  \o CredentialsAdvice

\* mutant: the configuration is not validated when a tool is called
validateCredentialsSkipped(e) == Return(Undefined)

validateCredentials(e) ==
  IF Len(MissingVars(e)) > 0
  THEN Throw(NewError(MissingVarsMessage(MissingVars(e))))
  ELSE Return(Undefined)

(***************************************************************************)
(* formatError (index.ts 99-112).                                          *)
(***************************************************************************)
isAxiosError(e) == e.k = "AxiosError"

\* axiosError.response?.data
ResponseData(e) == IF "response" \in DOMAIN e THEN e.response.data ELSE Undefined
\* mutant: the status is read from the body, where no status is
ResponseStatusOfBody(e) == GetOpt(ResponseData(e), "status")

\* axiosError.response?.status
ResponseStatus(e) ==
  IF "response" \in DOMAIN e THEN Num(e.response.status) ELSE Undefined

\* data.messages.map((m) => m.text).join("; "): reading .text of an
\* undefined or null element throws
MessagesText(msgs) ==
  IF \E n \in 1..Len(msgs) : Nullish(msgs[n])
  THEN Throw(NewTypeError(msgs[CHOOSE n \in 1..Len(msgs) :
                                 /\ Nullish(msgs[n])
                                 /\ \A m \in 1..(n - 1) : ~Nullish(msgs[m])],
                          "text"))
  ELSE Return(JoinStr([n \in 1..Len(msgs) |-> JoinItem(Get(msgs[n], "text"))],
                      "; "))

\* mutant: the message/detailCode pair is looked at before the messages list
formatErrorMessageFirst(e) ==
  IF isAxiosError(e)
  THEN LET data == ResponseData(e) IN
       IF Truthy(GetOpt(data, "message"))
       THEN Return(ToStr(OrElse(Get(data, "detailCode"), Str("Error")))
                   \o ": " \o ToStr(Get(data, "message")))
       ELSE IF Truthy(GetOpt(data, "messages")) /\ Get(data, "messages").k = "array"
       THEN MessagesText(Get(data, "messages").v)
       ELSE Return("HTTP " \o ToStr(ResponseStatus(e)) \o ": " \o e.message)
  ELSE Return(ErrorToString(e))

\* mutant: the fallback text quotes the Authorization header and the body of
\* the failed request
formatErrorQuotingRequest(e) ==
  IF isAxiosError(e)
  THEN LET data == ResponseData(e) IN
       IF Truthy(GetOpt(data, "messages")) /\ Get(data, "messages").k = "array"
       THEN MessagesText(Get(data, "messages").v)
       ELSE IF Truthy(GetOpt(data, "message"))
       THEN Return(ToStr(OrElse(Get(data, "detailCode"), Str("Error")))
                   \o ": " \o ToStr(Get(data, "message")))
       ELSE Return("HTTP " \o ToStr(ResponseStatus(e)) \o ": " \o e.message
                   \o (IF "config" \in DOMAIN e
                       THEN " (" \o e.config.headers.Authorization
                            \o e.config.data \o ")"
                       ELSE ""))
  ELSE Return(ErrorToString(e))

formatError(e) ==
  IF isAxiosError(e)
  THEN LET data == ResponseData(e) IN
       IF Truthy(GetOpt(data, "messages")) /\ Get(data, "messages").k = "array"
       THEN MessagesText(Get(data, "messages").v)
       ELSE IF Truthy(GetOpt(data, "message"))
       THEN Return(ToStr(OrElse(Get(data, "detailCode"), Str("Error")))
                   \o ": " \o ToStr(Get(data, "message")))
       ELSE Return("HTTP " \o ToStr(ResponseStatus(e)) \o ": " \o e.message)
  ELSE Return(ErrorToString(e))

(***************************************************************************)
(* getAccessToken (index.ts 61-96).                                        *)
(***************************************************************************)
TokenBufferMs == 60000
DefaultExpiresIn == 720

\* mutant: the buffer is applied twice
TokenStillValidWideBuffer(tok, expiry, t) ==
  Truthy(tok) /\ expiry > t + 2 * TokenBufferMs

\* mutant: a token with exactly the buffer left counts as valid
TokenStillValidInclusive(tok, expiry, t) ==
  Truthy(tok) /\ expiry >= t + TokenBufferMs

\* index.ts 65: accessToken && tokenExpiry > now + 60000
TokenStillValid(tok, expiry, t) == Truthy(tok) /\ expiry > t + TokenBufferMs

\* mutant: a refresh never shortens the cached expiry
StoreTokenLongestExpiry(data, t, tok, expiry) ==
  IF Nullish(data)
  THEN [out |-> Throw(NewTypeError(data, "access_token")),
        accessToken |-> tok, tokenExpiry |-> expiry]
  ELSE LET expiresIn == OrElse(Get(data, "expires_in"), Num(DefaultExpiresIn)) IN
       [out |-> Return(Get(data, "access_token")),
        accessToken |-> Get(data, "access_token"),
        tokenExpiry |-> IF expiry > t + expiresIn.v * 1000 THEN expiry
                        ELSE t + expiresIn.v * 1000]

\* index.ts 84-89, the try block after the response arrived: the outcome and
\* the cache it leaves
StoreToken(data, t, tok, expiry) ==
  IF Nullish(data)
  THEN [out |-> Throw(NewTypeError(data, "access_token")),
        accessToken |-> tok, tokenExpiry |-> expiry]
  ELSE LET expiresIn == OrElse(Get(data, "expires_in"), Num(DefaultExpiresIn)) IN
       [out |-> Return(Get(data, "access_token")),
        accessToken |-> Get(data, "access_token"),
        tokenExpiry |-> t + expiresIn.v * 1000]

\* index.ts 90-95: the catch block
TokenFailure(e) == Throw(NewError("Failed to obtain access token: " \o e.message))

\* bodies of a 2xx answer of the token endpoint
ExchangeBodies ==
  { Obj(<<Entry("access_token", Str("tokA")), Entry("expires_in", Num(61))>>),
    Obj(<<Entry("access_token", Str("tokB")), Entry("expires_in", Num(62))>>),
    Obj(<<Entry("access_token", Str("tokB")), Entry("expires_in", Num(60))>>),
    Obj(<<Entry("access_token", Str("tokA"))>>),
    Obj(<<Entry("access_token", Str("tokB")), Entry("expires_in", Num(0))>>),
    Obj(<<Entry("token_type", Str("bearer"))>>),
    Null }

\* failures of the token request
ExchangeErrors ==
  { TransportError("connect ECONNREFUSED"),
    HttpError(401, Obj(<<Entry("error", Str("invalid_client"))>>)) }

(***************************************************************************)
(* handleTool: the switch on the tool name (index.ts 988-1353).            *)
(***************************************************************************)
Lit(s) == [seg |-> "lit", v |-> s]
Param(a) == [seg |-> "param", v |-> a]

\* the case labels of the switch
ToolNames ==
  { "list_identities", "get_identity", "list_accounts",
    "get_account", "get_account_entitlements", "enable_account",
    "disable_account", "unlock_account", "list_access_profiles",
    "get_access_profile", "create_access_profile", "list_roles",
    "get_role", "get_role_assigned_identities", "create_role",
    "list_certifications", "get_certification", "list_certification_campaigns",
    "get_certification_campaign", "list_workflows", "get_workflow",
    "get_workflow_executions", "test_workflow", "list_sources",
    "get_source", "search", "search_aggregate",
    "list_entitlements", "get_entitlement", "list_access_requests",
    "create_access_request", "list_identity_profiles", "get_identity_profile",
    "list_sod_policies", "get_sod_policy", "list_sod_violations" }

\* One record per case: the axios method called, the path template (Param(a)
\* is ${args.a}), the "if (args.a) params[key] = args.a" lines in order,
\* whether a params object is passed, which body is built, and the first
\* property of args the case reads.
ToolCase(name) ==
  CASE name = "list_identities" ->
      [method |-> "GET", path |-> <<Lit("v3"), Lit("public-identities")>>,
       query |-> <<<<"limit", "limit">>, <<"offset", "offset">>, <<"filters", "filters">>,
                   <<"sorters", "sorters">>>>, hasParams |-> TRUE, body |-> "none", first |-> "limit"]
    [] name = "get_identity" ->
      [method |-> "GET", path |-> <<Lit("v3"), Lit("public-identities"), Param("id")>>,
       query |-> <<>>, hasParams |-> FALSE, body |-> "none", first |-> "id"]
    [] name = "list_accounts" ->
      [method |-> "GET", path |-> <<Lit("v3"), Lit("accounts")>>,
       query |-> <<<<"limit", "limit">>, <<"offset", "offset">>, <<"filters", "filters">>,
                   <<"sorters", "sorters">>>>, hasParams |-> TRUE, body |-> "none", first |-> "limit"]
    [] name = "get_account" ->
      [method |-> "GET", path |-> <<Lit("v3"), Lit("accounts"), Param("id")>>,
       query |-> <<>>, hasParams |-> FALSE, body |-> "none", first |-> "id"]
    [] name = "get_account_entitlements" ->
      [method |-> "GET", path |-> <<Lit("v3"), Lit("accounts"), Param("accountId"), Lit("entitlements")>>,
       query |-> <<<<"limit", "limit">>, <<"offset", "offset">>>>, hasParams |-> TRUE, body |-> "none", first |-> "limit"]
    [] name = "enable_account" ->
      [method |-> "POST", path |-> <<Lit("v3"), Lit("accounts"), Param("id"), Lit("enable")>>,
       query |-> <<>>, hasParams |-> FALSE, body |-> "none", first |-> "id"]
    [] name = "disable_account" ->
      [method |-> "POST", path |-> <<Lit("v3"), Lit("accounts"), Param("id"), Lit("disable")>>,
       query |-> <<>>, hasParams |-> FALSE, body |-> "none", first |-> "id"]
    [] name = "unlock_account" ->
      [method |-> "POST", path |-> <<Lit("v3"), Lit("accounts"), Param("id"), Lit("unlock")>>,
       query |-> <<>>, hasParams |-> FALSE, body |-> "none", first |-> "id"]
    [] name = "list_access_profiles" ->
      [method |-> "GET", path |-> <<Lit("v3"), Lit("access-profiles")>>,
       query |-> <<<<"limit", "limit">>, <<"offset", "offset">>, <<"filters", "filters">>,
                   <<"sorters", "sorters">>, <<"forSubadmin", "for-subadmin">>>>, hasParams |-> TRUE, body |-> "none", first |-> "limit"]
    [] name = "get_access_profile" ->
      [method |-> "GET", path |-> <<Lit("v3"), Lit("access-profiles"), Param("id")>>,
       query |-> <<>>, hasParams |-> FALSE, body |-> "none", first |-> "id"]
    [] name = "create_access_profile" ->
      [method |-> "POST", path |-> <<Lit("v3"), Lit("access-profiles")>>,
       query |-> <<>>, hasParams |-> FALSE, body |-> "accessProfile", first |-> "name"]
    [] name = "list_roles" ->
      [method |-> "GET", path |-> <<Lit("v3"), Lit("roles")>>,
       query |-> <<<<"limit", "limit">>, <<"offset", "offset">>, <<"filters", "filters">>,
                   <<"sorters", "sorters">>, <<"forSubadmin", "for-subadmin">>>>, hasParams |-> TRUE, body |-> "none", first |-> "limit"]
    [] name = "get_role" ->
      [method |-> "GET", path |-> <<Lit("v3"), Lit("roles"), Param("id")>>,
       query |-> <<>>, hasParams |-> FALSE, body |-> "none", first |-> "id"]
    [] name = "get_role_assigned_identities" ->
      [method |-> "GET", path |-> <<Lit("v3"), Lit("roles"), Param("roleId"), Lit("assigned-identities")>>,
       query |-> <<<<"limit", "limit">>, <<"offset", "offset">>>>, hasParams |-> TRUE, body |-> "none", first |-> "limit"]
    [] name = "create_role" ->
      [method |-> "POST", path |-> <<Lit("v3"), Lit("roles")>>,
       query |-> <<>>, hasParams |-> FALSE, body |-> "role", first |-> "name"]
    [] name = "list_certifications" ->
      [method |-> "GET", path |-> <<Lit("v3"), Lit("certifications")>>,
       query |-> <<<<"limit", "limit">>, <<"offset", "offset">>, <<"filters", "filters">>>>, hasParams |-> TRUE, body |-> "none", first |-> "limit"]
    [] name = "get_certification" ->
      [method |-> "GET", path |-> <<Lit("v3"), Lit("certifications"), Param("id")>>,
       query |-> <<>>, hasParams |-> FALSE, body |-> "none", first |-> "id"]
    [] name = "list_certification_campaigns" ->
      [method |-> "GET", path |-> <<Lit("v3"), Lit("campaigns")>>,
       query |-> <<<<"limit", "limit">>, <<"offset", "offset">>, <<"filters", "filters">>,
                   <<"sorters", "sorters">>>>, hasParams |-> TRUE, body |-> "none", first |-> "limit"]
    [] name = "get_certification_campaign" ->
      [method |-> "GET", path |-> <<Lit("v3"), Lit("campaigns"), Param("id")>>,
       query |-> <<>>, hasParams |-> FALSE, body |-> "none", first |-> "id"]
    [] name = "list_workflows" ->
      [method |-> "GET", path |-> <<Lit("v3"), Lit("workflows")>>,
       query |-> <<<<"limit", "limit">>, <<"offset", "offset">>>>, hasParams |-> TRUE, body |-> "none", first |-> "limit"]
    [] name = "get_workflow" ->
      [method |-> "GET", path |-> <<Lit("v3"), Lit("workflows"), Param("id")>>,
       query |-> <<>>, hasParams |-> FALSE, body |-> "none", first |-> "id"]
    [] name = "get_workflow_executions" ->
      [method |-> "GET", path |-> <<Lit("v3"), Lit("workflows"), Param("workflowId"), Lit("executions")>>,
       query |-> <<<<"limit", "limit">>, <<"offset", "offset">>>>, hasParams |-> TRUE, body |-> "none", first |-> "limit"]
    [] name = "test_workflow" ->
      [method |-> "POST", path |-> <<Lit("v3"), Lit("workflows"), Param("workflowId"), Lit("test")>>,
       query |-> <<>>, hasParams |-> FALSE, body |-> "workflowInput", first |-> "workflowId"]
    [] name = "list_sources" ->
      [method |-> "GET", path |-> <<Lit("v3"), Lit("sources")>>,
       query |-> <<<<"limit", "limit">>, <<"offset", "offset">>, <<"filters", "filters">>,
                   <<"sorters", "sorters">>>>, hasParams |-> TRUE, body |-> "none", first |-> "limit"]
    [] name = "get_source" ->
      [method |-> "GET", path |-> <<Lit("v3"), Lit("sources"), Param("id")>>,
       query |-> <<>>, hasParams |-> FALSE, body |-> "none", first |-> "id"]
    [] name = "search" ->
      [method |-> "POST", path |-> <<Lit("v3"), Lit("search")>>,
       query |-> <<>>, hasParams |-> TRUE, body |-> "search", first |-> "query"]
    [] name = "search_aggregate" ->
      [method |-> "POST", path |-> <<Lit("v3"), Lit("search"), Lit("aggregate")>>,
       query |-> <<>>, hasParams |-> FALSE, body |-> "aggregate", first |-> "aggregationField"]
    [] name = "list_entitlements" ->
      [method |-> "GET", path |-> <<Lit("v3"), Lit("entitlements")>>,
       query |-> <<<<"limit", "limit">>, <<"offset", "offset">>, <<"filters", "filters">>,
                   <<"sorters", "sorters">>>>, hasParams |-> TRUE, body |-> "none", first |-> "limit"]
    [] name = "get_entitlement" ->
      [method |-> "GET", path |-> <<Lit("v3"), Lit("entitlements"), Param("id")>>,
       query |-> <<>>, hasParams |-> FALSE, body |-> "none", first |-> "id"]
    [] name = "list_access_requests" ->
      [method |-> "GET", path |-> <<Lit("v3"), Lit("access-requests")>>,
       query |-> <<<<"requestedFor", "requested-for">>, <<"requestedBy", "requested-by">>,
                   <<"filters", "filters">>, <<"limit", "limit">>, <<"offset", "offset">>>>, hasParams |-> TRUE, body |-> "none", first |-> "requestedFor"]
    [] name = "create_access_request" ->
      [method |-> "POST", path |-> <<Lit("v3"), Lit("access-requests")>>,
       query |-> <<>>, hasParams |-> FALSE, body |-> "accessRequest", first |-> "requestedFor"]
    [] name = "list_identity_profiles" ->
      [method |-> "GET", path |-> <<Lit("v3"), Lit("identity-profiles")>>,
       query |-> <<<<"limit", "limit">>, <<"offset", "offset">>, <<"filters", "filters">>,
                   <<"sorters", "sorters">>>>, hasParams |-> TRUE, body |-> "none", first |-> "limit"]
    [] name = "get_identity_profile" ->
      [method |-> "GET", path |-> <<Lit("v3"), Lit("identity-profiles"), Param("id")>>,
       query |-> <<>>, hasParams |-> FALSE, body |-> "none", first |-> "id"]
    [] name = "list_sod_policies" ->
      [method |-> "GET", path |-> <<Lit("v3"), Lit("sod-policies")>>,
       query |-> <<<<"limit", "limit">>, <<"offset", "offset">>, <<"filters", "filters">>>>, hasParams |-> TRUE, body |-> "none", first |-> "limit"]
    [] name = "get_sod_policy" ->
      [method |-> "GET", path |-> <<Lit("v3"), Lit("sod-policies"), Param("id")>>,
       query |-> <<>>, hasParams |-> FALSE, body |-> "none", first |-> "id"]
    [] name = "list_sod_violations" ->
      [method |-> "GET", path |-> <<Lit("v3"), Lit("sod-violations"), Lit("predicted")>>,
       query |-> <<<<"limit", "limit">>, <<"offset", "offset">>>>, hasParams |-> TRUE, body |-> "none", first |-> "limit"]

\* mutant: unlock_account is sent with api.get
MethodUnlockGet(name) ==
  IF name = "unlock_account" THEN "GET" ELSE ToolCase(name).method

\* the axios method a case calls: api.get or api.post
Method(name) == ToolCase(name).method

\* the API Endpoint Mapping tables of docs/architecture/components.md
DocEndpoint(name) ==
  CASE name = "list_identities" -> [method |-> "GET", path |-> <<"v3", "public-identities">>]
    [] name = "get_identity" -> [method |-> "GET", path |-> <<"v3", "public-identities", "{id}">>]
    [] name = "list_accounts" -> [method |-> "GET", path |-> <<"v3", "accounts">>]
    [] name = "get_account" -> [method |-> "GET", path |-> <<"v3", "accounts", "{id}">>]
    [] name = "get_account_entitlements" -> [method |-> "GET", path |-> <<"v3", "accounts", "{id}", "entitlements">>]
    [] name = "list_access_profiles" -> [method |-> "GET", path |-> <<"v3", "access-profiles">>]
    [] name = "get_access_profile" -> [method |-> "GET", path |-> <<"v3", "access-profiles", "{id}">>]
    [] name = "list_roles" -> [method |-> "GET", path |-> <<"v3", "roles">>]
    [] name = "get_role" -> [method |-> "GET", path |-> <<"v3", "roles", "{id}">>]
    [] name = "get_role_assigned_identities" -> [method |-> "GET", path |-> <<"v3", "roles", "{id}", "assigned-identities">>]
    [] name = "list_certifications" -> [method |-> "GET", path |-> <<"v3", "certifications">>]
    [] name = "get_certification" -> [method |-> "GET", path |-> <<"v3", "certifications", "{id}">>]
    [] name = "list_certification_campaigns" -> [method |-> "GET", path |-> <<"v3", "campaigns">>]
    [] name = "get_certification_campaign" -> [method |-> "GET", path |-> <<"v3", "campaigns", "{id}">>]
    [] name = "list_workflows" -> [method |-> "GET", path |-> <<"v3", "workflows">>]
    [] name = "get_workflow" -> [method |-> "GET", path |-> <<"v3", "workflows", "{id}">>]
    [] name = "get_workflow_executions" -> [method |-> "GET", path |-> <<"v3", "workflows", "{id}", "executions">>]
    [] name = "list_sources" -> [method |-> "GET", path |-> <<"v3", "sources">>]
    [] name = "get_source" -> [method |-> "GET", path |-> <<"v3", "sources", "{id}">>]
    [] name = "list_entitlements" -> [method |-> "GET", path |-> <<"v3", "entitlements">>]
    [] name = "get_entitlement" -> [method |-> "GET", path |-> <<"v3", "entitlements", "{id}">>]
    [] name = "list_access_requests" -> [method |-> "GET", path |-> <<"v3", "access-requests">>]
    [] name = "list_identity_profiles" -> [method |-> "GET", path |-> <<"v3", "identity-profiles">>]
    [] name = "get_identity_profile" -> [method |-> "GET", path |-> <<"v3", "identity-profiles", "{id}">>]
    [] name = "list_sod_policies" -> [method |-> "GET", path |-> <<"v3", "sod-policies">>]
    [] name = "get_sod_policy" -> [method |-> "GET", path |-> <<"v3", "sod-policies", "{id}">>]
    [] name = "list_sod_violations" -> [method |-> "GET", path |-> <<"v3", "sod-violations", "predicted">>]
    [] name = "create_access_profile" -> [method |-> "POST", path |-> <<"v3", "access-profiles">>]
    [] name = "create_role" -> [method |-> "POST", path |-> <<"v3", "roles">>]
    [] name = "create_access_request" -> [method |-> "POST", path |-> <<"v3", "access-requests">>]
    [] name = "enable_account" -> [method |-> "POST", path |-> <<"v3", "accounts", "{id}", "enable">>]
    [] name = "disable_account" -> [method |-> "POST", path |-> <<"v3", "accounts", "{id}", "disable">>]
    [] name = "unlock_account" -> [method |-> "POST", path |-> <<"v3", "accounts", "{id}", "unlock">>]
    [] name = "test_workflow" -> [method |-> "POST", path |-> <<"v3", "workflows", "{id}", "test">>]
    [] name = "search" -> [method |-> "POST", path |-> <<"v3", "search">>]
    [] name = "search_aggregate" -> [method |-> "POST", path |-> <<"v3", "search", "aggregate">>]

\* mutant: every "/v3/" is replaced, as replaceAll would
apiPathEvery(path, version) ==
  [n \in 1..Len(path) |->
     IF path[n] = "v3" /\ n < Len(path) THEN version ELSE path[n]]

\* index.ts 984-986: path.replace("/v3/", `/${SAILPOINT_API_VERSION}/`)
\* replaces the first "/v3/", i.e. the first segment v3 that another follows
apiPath(path, version) ==
  IF \E n \in 1..(Len(path) - 1) : path[n] = "v3"
  THEN LET first == CHOOSE n \in 1..(Len(path) - 1) :
                      /\ path[n] = "v3"
                      /\ \A m \in 1..(n - 1) : path[m] # "v3"
       IN [n \in 1..Len(path) |-> IF n = first THEN version ELSE path[n]]
  ELSE path

\* the template literal: every ${args.a} replaced by the string of args.a
FillPath(template, args) ==
  [n \in 1..Len(template) |->
     IF template[n].seg = "param" THEN ToStr(Get(args, template[n].v))
     ELSE template[n].v]

RECURSIVE CopyParams(_, _, _)
\* the lines "if (args.a) params[key] = args.a", in order
CopyParams(query, args, params) ==
  IF query = <<>> THEN params
  ELSE CopyParams(Tail(query), args,
                  IF Truthy(Get(args, query[1][1]))
                  THEN Put(params, query[1][2], Get(args, query[1][1]))
                  ELSE params)

\* mutant: the count is asked for only when the caller passes no limit
SearchParamsCountOrLimit(args) ==
  IF Truthy(Get(args, "limit"))
  THEN Obj(<<Entry("limit", Get(args, "limit"))>>)
  ELSE Obj(<<Entry("count", Bool(TRUE))>>)

\* index.ts 1234-1236
SearchParams(args) ==
  Put(CopyParams(<<<<"limit", "limit">>>>, args, Obj(<<>>)), "count", Bool(TRUE))

\* ids.map((id) => ({ id, type }))
RefList(ids, type) ==
  [n \in 1..Len(ids) |-> Obj(<<Entry("id", ids[n]), Entry("type", Str(type))>>)]

\* "if (args.a) body[key] = args.a"
PutIf(body, key, val) == IF Truthy(val) THEN Put(body, key, val) ELSE body

\* index.ts 1076-1081 and 1124-1129: calling .map on a truthy value that is
\* no array throws
PutRefs(body, key, ids, type, argName) ==
  IF ~Truthy(ids) THEN Return(body)
  ELSE IF ids.k = "array" THEN Return(Put(body, key, Arr(RefList(ids.v, type))))
  ELSE Throw([k |-> "TypeError",
              message |-> "args." \o argName \o ".map is not a function"])

\* mutant: requestable is tested for truthiness like the other fields
PutDefinedTruthy(body, key, val) == IF Truthy(val) THEN Put(body, key, val) ELSE body

\* "if (args.requestable !== undefined) body.requestable = args.requestable"
PutDefined(body, key, val) ==
  IF val # Undefined THEN Put(body, key, val) ELSE body

\* index.ts 1069-1081
AccessProfileBody(args) ==
  PutRefs(
    PutDefined(
      PutIf(Obj(<<Entry("name", Get(args, "name")),
                  Entry("source", Obj(<<Entry("id", Get(args, "sourceId")),
                                        Entry("type", Str("SOURCE"))>>)),
                  Entry("owner", Obj(<<Entry("id", Get(args, "ownerId")),
                                       Entry("type", Str("IDENTITY"))>>))>>),
            "description", Get(args, "description")),
      "requestable", Get(args, "requestable")),
    "entitlements", Get(args, "entitlementIds"), "ENTITLEMENT", "entitlementIds")

\* index.ts 1118-1129
RoleBody(args) ==
  PutRefs(
    PutDefined(
      PutIf(Obj(<<Entry("name", Get(args, "name")),
                  Entry("owner", Obj(<<Entry("id", Get(args, "ownerId")),
                                       Entry("type", Str("IDENTITY"))>>))>>),
            "description", Get(args, "description")),
      "requestable", Get(args, "requestable")),
    "accessProfiles", Get(args, "accessProfileIds"), "ACCESS_PROFILE",
    "accessProfileIds")

\* index.ts 1195-1197
WorkflowInputBody(args) ==
  Obj(<<Entry("input", OrElse(Get(args, "input"), Obj(<<>>)))>>)

\* index.ts 1220-1232
SearchBody(args) ==
  PutIf(
    PutIf(Obj(<<Entry("indices", Get(args, "indices")),
                Entry("query",
                      PutIf(Obj(<<Entry("query", Get(args, "query"))>>),
                            "queryType", Get(args, "queryType")))>>),
          "sort", Get(args, "sort")),
    "searchAfter", Get(args, "searchAfter"))

\* index.ts 1246-1260
AggregateBody(args) ==
  LET aggregationsRequest ==
        IF Truthy(Get(args, "limit"))
        THEN Obj(<<Entry("field", Get(args, "aggregationField")),
                   Entry("size", Get(args, "limit"))>>)
        ELSE Obj(<<Entry("field", Get(args, "aggregationField"))>>)
      body == Obj(<<Entry("indices", Get(args, "indices")),
                    Entry("aggregationType", Get(args, "aggregationType")),
                    Entry("aggregationsRequest", aggregationsRequest)>>)
  IN IF Truthy(Get(args, "query"))
     THEN Put(body, "query", Obj(<<Entry("query", Get(args, "query"))>>))
     ELSE body

\* mutant: the request type is always the grant operation
AccessRequestBodyGrantOnly(args) ==
  Obj(<<Entry("requestedFor", Get(args, "requestedFor")),
        Entry("requestedItems", Get(args, "requestedItems")),
        Entry("requestType", Str("GRANT_ACCESS"))>>)

\* index.ts 1298-1302
AccessRequestBody(args) ==
  Obj(<<Entry("requestedFor", Get(args, "requestedFor")),
        Entry("requestedItems", Get(args, "requestedItems")),
        Entry("requestType",
              OrElse(Get(args, "requestType"), Str("GRANT_ACCESS")))>>)

\* the request body a case builds, or the error building it throws
BuildBody(kind, args) ==
  CASE kind = "accessProfile" -> AccessProfileBody(args)
    [] kind = "role" -> RoleBody(args)
    [] kind = "workflowInput" -> Return(WorkflowInputBody(args))
    [] kind = "search" -> Return(SearchBody(args))
    [] kind = "aggregate" -> Return(AggregateBody(args))
    [] kind = "accessRequest" -> Return(AccessRequestBody(args))
    [] OTHER -> Return(Undefined)

\* mutant: every list case asks for the count, as the search case does
BuildParamsCounted(name, args) ==
  IF ToolCase(name).hasParams
  THEN Put(CopyParams(ToolCase(name).query, args, Obj(<<>>)), "count", Bool(TRUE))
  ELSE Undefined

\* the query parameters a case passes: none (undefined) or the params object
BuildParams(name, args) ==
  IF name = "search" THEN SearchParams(args)
  ELSE IF ToolCase(name).hasParams
  THEN CopyParams(ToolCase(name).query, args, Obj(<<>>))
  ELSE Undefined

\* mutant: the default case reports the error without the name
UnknownToolUnnamed(name) == Throw(NewError("Unknown tool"))

\* index.ts 1350-1351: the default case
UnknownTool(name) == Throw(NewError("Unknown tool: " \o name))

\* The switch up to the api.get / api.post call: the request one case issues,
\* or the error thrown before any request (unknown name, a property read on
\* an absent argument bag, a failing body construction).
BuildRequest(name, args, version) ==
  IF name \notin ToolNames THEN UnknownTool(name)
  ELSE IF Nullish(args) THEN Throw(NewTypeError(args, ToolCase(name).first))
  ELSE IF BuildBody(ToolCase(name).body, args).k = "throw"
  THEN BuildBody(ToolCase(name).body, args)
  ELSE Return([method |-> Method(name),
               path |-> apiPath(FillPath(ToolCase(name).path, args), version),
               params |-> BuildParams(name, args),
               body |-> BuildBody(ToolCase(name).body, args).v])

(***************************************************************************)
(* The call-tool handler (index.ts 1383-1408).                             *)
(***************************************************************************)
RECURSIVE Stringify(_, _)
\* JSON.stringify(x, null, 2) of a value other than undefined, at the given
\* indentation; the strings of the model need no escaping
Stringify(x, indent) ==
  CASE x.k = "null" -> "null"
    [] x.k = "number" -> NatToStr(x.v)
    [] x.k = "boolean" -> ToStr(x)
    [] x.k = "string" -> "\"" \o x.v \o "\""
    [] x.k = "array" ->
         IF x.v = <<>> THEN "[]"
         ELSE "[\n"
              \o JoinStr([n \in 1..Len(x.v) |->
                            indent \o "  "
                            \o (IF x.v[n] = Undefined THEN "null"
                                ELSE Stringify(x.v[n], indent \o "  "))],
                         ",\n")
              \o "\n" \o indent \o "]"
    [] x.k = "object" ->
         LET kept == SelectSeq(x.v, LAMBDA e : e.val # Undefined) IN
         IF kept = <<>> THEN "{}"
         ELSE "{\n"
              \o JoinStr([n \in 1..Len(kept) |->
                            indent \o "  \"" \o kept[n].key \o "\": "
                            \o Stringify(kept[n].val, indent \o "  ")],
                         ",\n")
              \o "\n" \o indent \o "}"

\* JSON.stringify(result, null, 2): undefined for undefined
JSONStringify(x) == IF x = Undefined THEN Undefined ELSE Str(Stringify(x, ""))

\* what the handler hands back to the protocol front end
Returned(v) == [k |-> "returned", v |-> v]
\* the handler's promise rejects: the exception leaves the handler
Thrown(e) == [k |-> "thrown", error |-> e]

\* index.ts 1388-1395
SuccessResult(result) ==
  Returned([content |-> <<[type |-> "text", text |-> JSONStringify(result)]>>])

\* index.ts 1396-1407: formatError runs inside the catch block, so what it
\* throws is not caught
ErrorResult(error) ==
  IF formatError(error).k = "throw" THEN Thrown(formatError(error).error)
  ELSE Returned([content |-> <<[type |-> "text",
                                text |-> Str("Error: " \o formatError(error).v)]>>,
                 isError |-> TRUE])

\* mutant: every case returns the search case's envelope
ToolResultEnvelope(name, res) ==
  Obj(<<Entry("results", res.data),
        Entry("totalCount", Get(res.headers, "x-total-count"))>>)

\* index.ts 1239-1242 (search) and "return response.data" (every other case)
ToolResult(name, res) ==
  IF name = "search"
  THEN Obj(<<Entry("results", res.data),
             Entry("totalCount", Get(res.headers, "x-total-count"))>>)
  ELSE res.data

\* 2xx answers of the upstream API
DomainResponses ==
  { [data |-> Arr(<<Obj(<<Entry("id", Str("i1")), Entry("name", Str("Ann"))>>)>>),
     headers |-> Obj(<<Entry("x-total-count", Str("1"))>>)],
    [data |-> Str(""), headers |-> Obj(<<>>)] }

\* failures of a domain request: non-2xx answers with several bodies, and a
\* failure without any response
DomainErrors ==
  { HttpError(400, Obj(<<Entry("messages",
                               Arr(<<Obj(<<Entry("text", Str("A"))>>),
                                     Obj(<<Entry("text", Str("B"))>>)>>))>>)),
    HttpError(400, Obj(<<Entry("detailCode", Str("X")), Entry("message", Str("Y")),
                         Entry("messages",
                               Arr(<<Obj(<<Entry("text", Str("A"))>>)>>))>>)),
    HttpError(400, Obj(<<Entry("detailCode", Str("X")), Entry("message", Str("Y"))>>)),
    HttpError(404, Obj(<<Entry("message", Str("Y"))>>)),
    HttpError(401, Obj(<<Entry("error", Str("invalid_token"))>>)),
    HttpError(502, Str("Bad Gateway")),
    HttpError(500, Null),
    HttpError(400, Obj(<<Entry("messages", Arr(<<Null>>))>>)),
    HttpError(400, Obj(<<Entry("messages", Str("oops"))>>)),
    TransportError("timeout of 30000ms exceeded") }

(***************************************************************************)
(* State.                                                                  *)
(***************************************************************************)
Invocations == {"c1", "c2"}
NoClient == 0
NoCall == [name |-> "", arguments |-> Undefined]
NoExchange == [k |-> "none"]
\* now and token are the locals of getAccessToken and getApiClient, api is the
\* client handleTool holds, exchange is what the token request gave
NoFrame == [now |-> 0, token |-> Undefined, api |-> NoClient, exchange |-> NoExchange]
NoRequest == [k |-> "none"]
NoResponse == [k |-> "none"]
NotShaped == [k |-> "none"]
\* a call waiting to be dispatched
Pending(name, args) == [name |-> name, arguments |-> args, out |-> NotShaped]

\* names an invocation may carry: the catalogue and two names outside it
CallNames == ToolNames \cup {"delete_identity", "LIST_IDENTITIES"}

\* argument bags an invocation may carry; request.params.arguments is optional
CallArguments ==
  { Undefined,
    Obj(<<>>),
    Obj(<<Entry("id", Str("i1")), Entry("limit", Num(50)), Entry("offset", Num(0))>>) }

\* index.ts 1358: SAILPOINT_BASE_URL && SAILPOINT_CLIENT_ID && SAILPOINT_CLIENT_SECRET
hasCredentials(e) ==
  e.SAILPOINT_BASE_URL # "" /\ e.SAILPOINT_CLIENT_ID # ""
  /\ e.SAILPOINT_CLIENT_SECRET # ""

\* index.ts 1359-1363: the line main writes to stderr before it connects
StartupLine(e) ==
  IF hasCredentials(e)
  THEN "SailPoint MCP Server initialized for: " \o e.SAILPOINT_BASE_URL
  ELSE "Warning: SailPoint credentials not configured. Set SAILPOINT_BASE_URL, "
       \o "SAILPOINT_CLIENT_ID, and SAILPOINT_CLIENT_SECRET environment variables."

\* main has not run yet
Starting == [state |-> "starting", stderr |-> <<>>]
\* main has attached the transport (index.ts 1411-1413)
Connected(e) ==
  [state |-> "running",
   stderr |-> <<StartupLine(e), "SailPoint MCP Server running on stdio">>]
\* server.connect rejected: main().catch logs and exits (index.ts 1416-1419)
Exited(e) ==
  [state |-> "exited", stderr |-> <<StartupLine(e), "Fatal error:">>, code |-> 1]

Init ==
  /\ env \in Environments
  /\ now = 0
  /\ accessToken = Null
  /\ tokenExpiry = 0
  /\ apiClient = NoClient
  /\ clients = <<>>
  /\ pc = [i \in Invocations |-> "idle"]
  /\ call = [i \in Invocations |-> NoCall]
  /\ frame = [i \in Invocations |-> NoFrame]
  /\ request = [i \in Invocations |-> NoRequest]
  /\ response = [i \in Invocations |-> NoResponse]
  /\ exchanges = [i \in Invocations |-> 0]
  /\ domainCalls = [i \in Invocations |-> 0]
  /\ nCalls = 0
  /\ server = Connected(env)
  /\ shaped = Pending("", Undefined)

(***************************************************************************)
(* Steps of one invocation.  An action runs the code from one suspension   *)
(* point (an await on network or module I/O) to the next.                  *)
(***************************************************************************)
\* the handler returns (or rejects with) resp
Finish(i, resp) ==
  /\ response' = [response EXCEPT ![i] = resp]
  /\ pc' = [pc EXCEPT ![i] = "done"]

\* the switch of handleTool with client c, whose Authorization default is auth
Dispatch(i, cl, c, auth) ==
  LET r == BuildRequest(cl.name, cl.arguments, env.SAILPOINT_API_VERSION) IN
  IF r.k = "throw"
  THEN /\ Finish(i, ErrorResult(r.error))
       /\ UNCHANGED <<request, domainCalls>>
  ELSE /\ request' = [request EXCEPT ![i] =
                        [k |-> "request", method |-> r.v.method, path |-> r.v.path,
                         params |-> r.v.params, body |-> r.v.body,
                         authorization |-> auth, client |-> c]]
       /\ domainCalls' = [domainCalls EXCEPT ![i] = @ + 1]
       /\ pc' = [pc EXCEPT ![i] = "domain"]
       /\ UNCHANGED response

\* index.ts 55-57, then handleTool from line 984 on: cls are the instances
\* created so far and c the one held in apiClient
UseClient(i, cl, fr, tok, c, cls) ==
  /\ apiClient' = c
  /\ clients' = [cls EXCEPT ![c] = Str("Bearer " \o ToStr(tok))]
  /\ frame' = [frame EXCEPT ![i] = [fr EXCEPT !.token = tok, !.api = c]]
  /\ Dispatch(i, cl, c, Str("Bearer " \o ToStr(tok)))

\* getApiClient after "await getAccessToken()" gave tok (index.ts 28-31)
AfterToken(i, cl, fr, tok) ==
  IF apiClient = NoClient
  THEN /\ pc' = [pc EXCEPT ![i] = "import"]
       /\ frame' = [frame EXCEPT ![i] = [fr EXCEPT !.token = tok]]
       /\ UNCHANGED <<apiClient, clients, request, response, domainCalls>>
  ELSE UseClient(i, cl, fr, tok, apiClient, clients)

\* mutant: a failed exchange is tried again
AfterTokenErrorRetry(i, fr, e) ==
  /\ exchanges' = [exchanges EXCEPT ![i] = @ + 1]
  /\ frame' = [frame EXCEPT ![i] = fr]
  /\ UNCHANGED <<pc, response, apiClient, clients, request, domainCalls>>

\* getAccessToken's catch block and the handler's: one failed exchange ends
\* the invocation
AfterTokenError(i, fr, e) ==
  /\ Finish(i, ErrorResult(TokenFailure(e).error))
  /\ frame' = [frame EXCEPT ![i] = fr]
  /\ UNCHANGED <<apiClient, clients, request, domainCalls, exchanges>>

\* An invocation arrives: validateCredentials, then getAccessToken up to its
\* return or its token request.
Invoke(i, name, args) ==
  /\ server.state = "running"
  /\ pc[i] = "idle"
  /\ nCalls < MaxCalls
  /\ nCalls' = nCalls + 1
  /\ call' = [call EXCEPT ![i] = [name |-> name, arguments |-> args]]
  /\ UNCHANGED <<server, env, now, accessToken, tokenExpiry, shaped>>
  /\ IF validateCredentials(env).k = "throw"
     THEN /\ Finish(i, ErrorResult(validateCredentials(env).error))
          /\ UNCHANGED <<apiClient, clients, frame, request, domainCalls, exchanges>>
     ELSE IF TokenStillValid(accessToken, tokenExpiry, now)
     THEN /\ AfterToken(i, [name |-> name, arguments |-> args],
                        [NoFrame EXCEPT !.now = now], accessToken)
          /\ UNCHANGED exchanges
     ELSE /\ pc' = [pc EXCEPT ![i] = "token"]
          /\ frame' = [frame EXCEPT ![i] = [NoFrame EXCEPT !.now = now]]
          /\ exchanges' = [exchanges EXCEPT ![i] = @ + 1]
          /\ UNCHANGED <<apiClient, clients, request, response, domainCalls>>

\* the token endpoint answers 2xx with body data
TokenResponse(i, data) ==
  /\ pc[i] = "token"
  /\ LET st == StoreToken(data, frame[i].now, accessToken, tokenExpiry) IN
     /\ accessToken' = st.accessToken
     /\ tokenExpiry' = st.tokenExpiry
     /\ IF st.out.k = "throw"
        THEN AfterTokenError(i, [frame[i] EXCEPT !.exchange = Return(data)],
                             st.out.error)
        ELSE /\ AfterToken(i, call[i], [frame[i] EXCEPT !.exchange = Return(data)],
                           st.out.v)
             /\ UNCHANGED exchanges
  /\ UNCHANGED <<server, env, now, call, nCalls, shaped>>

\* the token request fails
TokenError(i, e) ==
  /\ pc[i] = "token"
  /\ AfterTokenError(i, [frame[i] EXCEPT !.exchange = Throw(e)], e)
  /\ UNCHANGED <<server, env, now, accessToken, tokenExpiry, call, nCalls, shaped>>

\* the dynamic imports of http and https complete: axios.create (index.ts 32-51)
ImportDone(i) ==
  /\ pc[i] = "import"
  /\ UseClient(i, call[i], frame[i], frame[i].token,
               Len(clients) + 1, Append(clients, Undefined))
  /\ UNCHANGED <<server, env, now, accessToken, tokenExpiry, call, exchanges, nCalls, shaped>>

\* the upstream API answers the domain request 2xx
DomainResponse(i, res) ==
  /\ pc[i] = "domain"
  /\ Finish(i, SuccessResult(ToolResult(call[i].name, res)))
  /\ UNCHANGED <<server, env, now, accessToken, tokenExpiry, apiClient, clients, call,
                 frame, request, exchanges, domainCalls, nCalls, shaped>>

\* mutant: an upstream 401 clears the cached token
DomainErrorInvalidate(i, e) ==
  /\ pc[i] = "domain"
  /\ Finish(i, ErrorResult(e))
  /\ accessToken' = IF "response" \in DOMAIN e /\ e.response.status = 401
                    THEN Null ELSE accessToken
  /\ UNCHANGED <<server, env, now, tokenExpiry, apiClient, clients, call,
                 frame, request, exchanges, domainCalls, nCalls, shaped>>

\* the domain request fails
DomainError(i, e) ==
  /\ pc[i] = "domain"
  /\ Finish(i, ErrorResult(e))
  /\ UNCHANGED <<server, env, now, accessToken, tokenExpiry, apiClient, clients, call,
                 frame, request, exchanges, domainCalls, nCalls, shaped>>

\* the front end has taken the response; the slot is free for the next call
Complete(i) ==
  /\ pc[i] = "done"
  /\ pc' = [pc EXCEPT ![i] = "idle"]
  /\ call' = [call EXCEPT ![i] = NoCall]
  /\ frame' = [frame EXCEPT ![i] = NoFrame]
  /\ request' = [request EXCEPT ![i] = NoRequest]
  /\ response' = [response EXCEPT ![i] = NoResponse]
  /\ exchanges' = [exchanges EXCEPT ![i] = 0]
  /\ domainCalls' = [domainCalls EXCEPT ![i] = 0]
  /\ UNCHANGED <<server, env, now, accessToken, tokenExpiry, apiClient, clients, nCalls, shaped>>

\* one second passes
Tick ==
  /\ now < MaxNow * 1000
  /\ now' = now + 1000
  /\ UNCHANGED <<server, env, accessToken, tokenExpiry, apiClient, clients, pc, call, frame,
                 request, response, exchanges, domainCalls, nCalls, shaped>>

\* mutant: the first descriptor is listed twice and the others are missing
ToolCatalogueRepeated == <<"list_identities", "list_identities">>

\* index.ts 138-971: the name of each descriptor of the tools array, in order
ToolCatalogue ==
  <<
     "list_identities", "get_identity", "list_accounts",
     "get_account", "get_account_entitlements", "enable_account",
     "disable_account", "unlock_account", "list_access_profiles",
     "get_access_profile", "create_access_profile", "list_roles",
     "get_role", "get_role_assigned_identities", "create_role",
     "list_certifications", "get_certification", "list_certification_campaigns",
     "get_certification_campaign", "list_workflows", "get_workflow",
     "get_workflow_executions", "test_workflow", "list_sources",
     "get_source", "search", "search_aggregate",
     "list_entitlements", "get_entitlement", "list_access_requests",
     "create_access_request", "list_identity_profiles", "get_identity_profile",
     "list_sod_policies", "get_sod_policy", "list_sod_violations" >>

\* a discovery call: request.params of tools/list carries no tool name
ListCall == [method |-> "tools/list", name |-> "", arguments |-> Undefined]

\* mutant: discovery validates the configuration as a tool call does
ListToolsValidated(i) ==
  /\ server.state = "running"
  /\ pc[i] = "idle"
  /\ nCalls < MaxCalls
  /\ nCalls' = nCalls + 1
  /\ call' = [call EXCEPT ![i] = ListCall]
  /\ IF validateCredentials(env).k = "throw"
     THEN Finish(i, ErrorResult(validateCredentials(env).error))
     ELSE Finish(i, Returned([tools |-> ToolCatalogue]))
  /\ UNCHANGED <<server, env, now, accessToken, tokenExpiry, apiClient, clients, frame,
                 request, exchanges, domainCalls, shaped>>

\* index.ts 1377-1380: the ListTools handler returns the tools array
ListTools(i) ==
  /\ server.state = "running"
  /\ pc[i] = "idle"
  /\ nCalls < MaxCalls
  /\ nCalls' = nCalls + 1
  /\ call' = [call EXCEPT ![i] = ListCall]
  /\ Finish(i, Returned([tools |-> ToolCatalogue]))
  /\ UNCHANGED <<server, env, now, accessToken, tokenExpiry, apiClient, clients, frame,
                 request, exchanges, domainCalls, shaped>>

\* mutant: main refuses to start without credentials
mainStrict(connected) ==
  /\ server.state = "starting"
  /\ server' = IF connected /\ hasCredentials(env) THEN Connected(env) ELSE Exited(env)
  /\ UNCHANGED <<env, now, accessToken, tokenExpiry, apiClient, clients, pc, call, frame,
                 request, response, exchanges, domainCalls, nCalls, shaped>>

\* index.ts 1356-1419: main logs, registers the handlers and connects the
\* transport; a rejected connect is logged and ends the process with code 1
main(connected) ==
  /\ server.state = "starting"
  /\ server' = IF connected THEN Connected(env) ELSE Exited(env)
  /\ UNCHANGED <<env, now, accessToken, tokenExpiry, apiClient, clients, pc, call, frame,
                 request, response, exchanges, domainCalls, nCalls, shaped>>

\* the steps of the invocations in I, for calls drawn from names and bags and
\* token answers drawn from bodies
Steps(I, names, bags, bodies) ==
  \E i \in I :
    \/ \E name \in names, args \in bags : Invoke(i, name, args)
    \/ \E data \in bodies : TokenResponse(i, data)
    \/ \E e \in ExchangeErrors : TokenError(i, e)
    \/ ImportDone(i)
    \/ \E res \in DomainResponses : DomainResponse(i, res)
    \/ \E e \in DomainErrors : DomainError(i, e)
    \/ Complete(i)

\* token answers of the front-end specification: a token that can be reused,
\* one that is stale at once, a body without a token, a null body
FewExchangeBodies ==
  { b \in ExchangeBodies :
      \/ Nullish(b)
      \/ Get(b, "expires_in") \in {Num(61), Num(60)}
      \/ Get(b, "access_token") = Undefined }

\* The front end delivers one call at a time (spec section 5): every tool
\* name, every answer of the upstream, at one instant.
Next == Steps({"c1"}, CallNames, CallArguments, FewExchangeBodies)

Spec == Init /\ [][Next]_vars

\* The token cache over time: one call at a time, a few tool names, every
\* token answer, and the clock.
TokenCallNames == {"list_identities", "search", "delete_identity"}

NextToken ==
  \/ Steps({"c1"}, TokenCallNames, CallArguments, ExchangeBodies)
  \/ Tick

SpecToken == Init /\ [][NextToken]_vars

\* The process from its start: main, then discovery and tool calls one at a
\* time.
InitServer ==
  /\ env \in Environments
  /\ now = 0
  /\ accessToken = Null
  /\ tokenExpiry = 0
  /\ apiClient = NoClient
  /\ clients = <<>>
  /\ pc = [i \in Invocations |-> "idle"]
  /\ call = [i \in Invocations |-> NoCall]
  /\ frame = [i \in Invocations |-> NoFrame]
  /\ request = [i \in Invocations |-> NoRequest]
  /\ response = [i \in Invocations |-> NoResponse]
  /\ exchanges = [i \in Invocations |-> 0]
  /\ domainCalls = [i \in Invocations |-> 0]
  /\ nCalls = 0
  /\ server = Starting
  /\ shaped = Pending("", Undefined)

NextServer ==
  \/ \E connected \in BOOLEAN : main(connected)
  \/ ListTools("c1")
  \/ Steps({"c1"}, TokenCallNames, CallArguments, FewExchangeBodies)

SpecServer == InitServer /\ [][NextServer]_vars

\* Calls that overlap: the front end is not required to serialize calls, so
\* both invocation slots run, interleaved at their awaits (the token request,
\* the dynamic imports, the domain request), for one tool and a complete
\* configuration.
InitConc == Init /\ hasCredentials(env)

ConcCallNames == {"list_sources"}
ConcCallArguments == {Obj(<<>>)}

\* token answers: a token that can be reused, one that is stale at once, a
\* body without a token
ConcExchangeBodies ==
  { b \in ExchangeBodies \ {Null} :
      \/ Get(b, "expires_in") \in {Num(61), Num(60)}
      \/ Get(b, "access_token") = Undefined }
\* one failure of the token request, one answer and one failure of the
\* domain request
ConcExchangeErrors == {e \in ExchangeErrors : "response" \in DOMAIN e}
ConcDomainResponses == {r \in DomainResponses : r.data.k = "array"}
ConcDomainErrors ==
  {e \in DomainErrors : "response" \in DOMAIN e /\ e.response.status = 401}

NextConc ==
  \/ \E i \in Invocations :
       \/ \E name \in ConcCallNames, args \in ConcCallArguments : Invoke(i, name, args)
       \/ \E data \in ConcExchangeBodies : TokenResponse(i, data)
       \/ \E e \in ConcExchangeErrors : TokenError(i, e)
       \/ ImportDone(i)
       \/ \E res \in ConcDomainResponses : DomainResponse(i, res)
       \/ \E e \in ConcDomainErrors : DomainError(i, e)
       \/ Complete(i)
  \/ Tick

SpecConc == InitConc /\ [][NextConc]_vars

(***************************************************************************)
(* Termination: one call at a time against an upstream that may never      *)
(* answer.  The client of the domain requests is created with timeout:     *)
(* 30000 (index.ts 51), so a pending domain request is ended by the        *)
(* transport; the token request is a plain axios.post without a timeout    *)
(* (index.ts 77-82), so nothing but the token endpoint ends it.            *)
(***************************************************************************)
\* index.ts 51: the failure the transport raises when the 30 s have passed
DomainTimeout == TransportError("timeout of 30000ms exceeded")

NextLive == Steps({"c1"}, TokenCallNames, CallArguments, FewExchangeBodies)

\* the dynamic imports settle, the 30 s timer of a pending domain request
\* fires, and the front end takes a finished response
FairLive ==
  /\ WF_vars(ImportDone("c1"))
  /\ WF_vars(DomainError("c1", DomainTimeout))
  /\ WF_vars(Complete("c1"))

SpecLive == Init /\ [][NextLive]_vars /\ FairLive

(***************************************************************************)
(* The error text of two runs that differ in their secret values only:     *)
(* the catch blocks of getAccessToken and of the CallTool handler applied  *)
(* to the same upstream failure, which in each run carries the run's own   *)
(* request (AxiosError.config).                                            *)
(***************************************************************************)
\* the client id and client secret of a run and the bearer token it was given
SecretValues ==
  [SAILPOINT_CLIENT_ID : {"client-1", "client-2"},
   SAILPOINT_CLIENT_SECRET : {"secret-1", "secret-2"},
   token : {"tokA", "tokB"}]

\* the environment of a run
RunEnv(e, s) ==
  [e EXCEPT !.SAILPOINT_CLIENT_ID = s.SAILPOINT_CLIENT_ID,
            !.SAILPOINT_CLIENT_SECRET = s.SAILPOINT_CLIENT_SECRET]

\* index.ts 70-82: the token request, its form body holding the credentials
TokenRequestConfig(e) ==
  [url |-> e.SAILPOINT_BASE_URL \o "/oauth/token",
   data |-> "grant_type=client_credentials&client_id=" \o e.SAILPOINT_CLIENT_ID
            \o "&client_secret=" \o e.SAILPOINT_CLIENT_SECRET,
   headers |-> [Authorization |-> ""]]

\* index.ts 32-55: a request of the client, its default header holding the
\* bearer token
DomainRequestConfig(e, token) ==
  [url |-> e.SAILPOINT_BASE_URL,
   data |-> "",
   headers |-> [Authorization |-> "Bearer " \o token]]

\* the error axios throws for a failed request carries that request
WithConfig(e, config) == e @@ [config |-> config]

\* What the caller gets when the upstream fails with e at the given stage of
\* an invocation (index.ts 1396-1407 around 979-981 and 90-95)
FailureResult(stage, e, runEnv, token) ==
  IF validateCredentials(runEnv).k = "throw"
  THEN ErrorResult(validateCredentials(runEnv).error)
  ELSE IF stage = "token"
  THEN ErrorResult(TokenFailure(WithConfig(e, TokenRequestConfig(runEnv))).error)
  ELSE ErrorResult(WithConfig(e, DomainRequestConfig(runEnv, token)))

\* the upstream failures of the two stages
StageFailures ==
  {[stage |-> "token", error |-> e] : e \in ExchangeErrors}
  \cup {[stage |-> "domain", error |-> e] : e \in DomainErrors}

\* two runs and the failure both receive
TwoRuns(f, left, right) ==
  [stage |-> f.stage, error |-> f.error, left |-> left, right |-> right,
   out |-> NotShaped]

InitSecret ==
  /\ env \in {e \in Environments : MissingVars(e) = <<>>}
  /\ now = 0
  /\ accessToken = Null
  /\ tokenExpiry = 0
  /\ apiClient = NoClient
  /\ clients = <<>>
  /\ pc = [i \in Invocations |-> "idle"]
  /\ call = [i \in Invocations |-> NoCall]
  /\ frame = [i \in Invocations |-> NoFrame]
  /\ request = [i \in Invocations |-> NoRequest]
  /\ response = [i \in Invocations |-> NoResponse]
  /\ exchanges = [i \in Invocations |-> 0]
  /\ domainCalls = [i \in Invocations |-> 0]
  /\ nCalls = 0
  /\ server = Connected(env)
  /\ shaped \in {TwoRuns(f, left, right) :
                   f \in StageFailures, left \in SecretValues, right \in SecretValues}

\* both runs report the failure
ReportFailure ==
  /\ shaped.out = NotShaped
  /\ shaped' = [shaped EXCEPT !.out =
                  [left |-> FailureResult(shaped.stage, shaped.error,
                                          RunEnv(env, shaped.left), shaped.left.token),
                   right |-> FailureResult(shaped.stage, shaped.error,
                                           RunEnv(env, shaped.right), shaped.right.token)]]
  /\ UNCHANGED <<server, env, now, accessToken, tokenExpiry, apiClient, clients, pc, call,
                 frame, request, response, exchanges, domainCalls, nCalls>>

NextSecret == ReportFailure

SpecSecret == InitSecret /\ [][NextSecret]_vars

(***************************************************************************)
(* The dispatcher rule alone: handleTool's switch applied to calls drawn   *)
(* from every tool name and a family of argument bags.                     *)
(***************************************************************************)
Absent == [k |-> "absent"]

\* the object holding the entries whose value is not Absent
MkObj(entries) == Obj(SelectSeq(entries, LAMBDA e : e.val # Absent))

DispatchArguments ==
  {Undefined} \cup
  { MkObj(<<Entry("limit", l), Entry("offset", o), Entry("filters", f),
            Entry("sorters", s), Entry("id", d), Entry("accountId", d),
            Entry("roleId", d), Entry("workflowId", d),
            Entry("forSubadmin", d), Entry("requestedFor", d)>>) :
      l \in {Absent, Num(0), Num(50)}, o \in {Absent, Num(0), Num(50)},
      f \in {Absent, Str(""), Str("name eq \"Ann\"")}, s \in {Absent, Str("name")},
      d \in {Absent, Str("i1"), Str("v3")} }

InitDispatch ==
  /\ env \in {e \in Environments : MissingVars(e) = <<>>}
  /\ now = 0
  /\ accessToken = Null
  /\ tokenExpiry = 0
  /\ apiClient = NoClient
  /\ clients = <<>>
  /\ pc = [i \in Invocations |-> "idle"]
  /\ call = [i \in Invocations |-> NoCall]
  /\ frame = [i \in Invocations |-> NoFrame]
  /\ request = [i \in Invocations |-> NoRequest]
  /\ response = [i \in Invocations |-> NoResponse]
  /\ exchanges = [i \in Invocations |-> 0]
  /\ domainCalls = [i \in Invocations |-> 0]
  /\ nCalls = 0
  /\ server = Connected(env)
  /\ shaped \in {Pending(name, args) : name \in CallNames, args \in DispatchArguments}

\* handleTool's switch runs for the pending call
DispatchCall ==
  /\ shaped.out = NotShaped
  /\ shaped' = [shaped EXCEPT !.out = BuildRequest(shaped.name, shaped.arguments,
                                                   env.SAILPOINT_API_VERSION)]
  /\ UNCHANGED <<server, env, now, accessToken, tokenExpiry, apiClient, clients, pc, call,
                 frame, request, response, exchanges, domainCalls, nCalls>>

NextDispatch == DispatchCall

SpecDispatch == InitDispatch /\ [][NextDispatch]_vars

(***************************************************************************)
(* The body construction of the POST cases: the switch applied to the      *)
(* tools that build a body and a family of argument bags for them.         *)
(***************************************************************************)
\* the cases that build a request body
BodyTools == {t \in ToolNames : ToolCase(t).body # "none"}

\* arrays of at most MaxIds ids
IdLists ==
  UNION {[1..n -> {Str("e1"), Str("e2")}] : n \in 0..MaxIds}

\* fixed values of the required arguments, or none of them (r = Absent)
Required(r, val) == IF r = Absent THEN Absent ELSE val

BodyArguments ==
  { MkObj(<<Entry("name", Required(r, Str("n1"))),
            Entry("sourceId", Required(r, Str("s1"))),
            Entry("ownerId", Required(r, Str("o1"))),
            Entry("description", d),
            Entry("requestable", q),
            Entry("entitlementIds", ids),
            Entry("accessProfileIds", ids),
            Entry("requestedFor", Required(r, Arr(<<Str("id1")>>))),
            Entry("requestedItems",
                  Required(r, Arr(<<Obj(<<Entry("type", Str("ROLE")),
                                          Entry("id", Str("r1"))>>)>>))),
            Entry("requestType", t)>>) :
      r \in {Absent, Null},
      d \in {Absent, Str(""), Str("d1")},
      q \in {Absent, Bool(FALSE), Bool(TRUE)},
      ids \in {Absent} \cup {Arr(l) : l \in IdLists},
      t \in {Absent, Str(""), Str("GRANT_ACCESS"), Str("REVOKE_ACCESS")} }

InitBody ==
  /\ env \in {e \in Environments : MissingVars(e) = <<>>}
  /\ now = 0
  /\ accessToken = Null
  /\ tokenExpiry = 0
  /\ apiClient = NoClient
  /\ clients = <<>>
  /\ pc = [i \in Invocations |-> "idle"]
  /\ call = [i \in Invocations |-> NoCall]
  /\ frame = [i \in Invocations |-> NoFrame]
  /\ request = [i \in Invocations |-> NoRequest]
  /\ response = [i \in Invocations |-> NoResponse]
  /\ exchanges = [i \in Invocations |-> 0]
  /\ domainCalls = [i \in Invocations |-> 0]
  /\ nCalls = 0
  /\ server = Connected(env)
  /\ shaped \in {Pending(name, args) : name \in BodyTools, args \in BodyArguments}

SpecBody == InitBody /\ [][NextDispatch]_vars

\* a call has been dispatched and a request came out of it
Shaped == shaped.out.k = "return"

(***************************************************************************)
(* Properties.                                                             *)
(***************************************************************************)
ConfigValid ==
  /\ env.SAILPOINT_BASE_URL # ""
  /\ env.SAILPOINT_CLIENT_ID # ""
  /\ env.SAILPOINT_CLIENT_SECRET # ""

\* the error payload carrying text
ErrorPayload(text) ==
  Returned([content |-> <<[type |-> "text", text |-> Str(text)]>>, isError |-> TRUE])

\* invocation i enters the handler in this step
Enters(i) == pc[i] = "idle" /\ pc'[i] # "idle"

\* C1: every finished invocation has handed the front end one response, a
\* single text item with or without the error flag; no exception leaves the
\* call handler, whatever the tool name, the argument bag and the upstream
\* outcome.
C1_NoExceptionEscapes ==
  \A i \in Invocations :
    pc[i] = "done" =>
      /\ response[i].k = "returned"
      /\ Len(response[i].v.content) = 1
      /\ response[i].v.content[1].type = "text"
      /\ response[i].v.content[1].text.k = "string"
      /\ ("isError" \in DOMAIN response[i].v => response[i].v.isError = TRUE)

\* C2: an invocation that finds a non-empty cached token whose expiry is more
\* than 60 seconds ahead gets that token from getAccessToken, issues no
\* credential exchange and leaves the cached value and expiry unchanged.
C2_TokenReuse ==
  [][\A i \in Invocations :
       (/\ Enters(i)
        /\ ConfigValid
        /\ accessToken.k = "string"
        /\ accessToken.v # ""
        /\ tokenExpiry > now + 60000)
       => /\ frame'[i].token = accessToken
          /\ exchanges'[i] = 0
          /\ pc'[i] # "token"
          /\ accessToken' = accessToken
          /\ tokenExpiry' = tokenExpiry]_vars

\* an invocation went on with the cached token, 61 seconds before its expiry
C2_Witness ==
  \E i \in Invocations :
    /\ pc[i] = "domain"
    /\ exchanges[i] = 0
    /\ frame[i].token = accessToken
    /\ tokenExpiry = frame[i].now + 61000

\* C3: an invocation that finds no token, or one whose expiry is at most 60
\* seconds ahead (exactly 60 included), issues exactly one credential
\* exchange; when the exchange succeeds (a 2xx answer with a body), the cache
\* holds the answer's access_token and the expiry entry time + ttl, and
\* getAccessToken returns the new value.
C3_TokenRefresh ==
  [][\A i \in Invocations :
       /\ (/\ Enters(i)
           /\ ConfigValid
           /\ \/ accessToken \in {Null, Undefined, Str("")}
              \/ tokenExpiry <= now + 60000)
          => /\ pc'[i] = "token"
             /\ exchanges'[i] = 1
             /\ accessToken' = accessToken
             /\ tokenExpiry' = tokenExpiry
       /\ (/\ pc[i] = "token"
           /\ pc'[i] # "token"
           /\ frame'[i].exchange.k = "return"
           /\ ~Nullish(frame'[i].exchange.v))
          => /\ exchanges'[i] = 1
             /\ accessToken' = Get(frame'[i].exchange.v, "access_token")
             /\ tokenExpiry' =
                  frame[i].now
                  + 1000 * (IF Truthy(Get(frame'[i].exchange.v, "expires_in"))
                            THEN Get(frame'[i].exchange.v, "expires_in").v
                            ELSE 720)
             /\ frame'[i].token = accessToken']_vars

\* a second invocation refreshed a token that had exactly 60 seconds left and
\* goes on with the new one
C3_Witness ==
  \E i \in Invocations :
    /\ nCalls = 2
    /\ pc[i] = "domain"
    /\ exchanges[i] = 1
    /\ frame[i].now = 1000
    /\ frame[i].token = accessToken
    /\ accessToken = Str("tokB")

\* C4: a failed credential exchange (no answer, or a non-2xx answer) ends the
\* invocation with the authentication error carrying the transport message,
\* after one exchange request: no invocation ever issues a second one.
C4_ExchangeFailure ==
  \A i \in Invocations :
    /\ exchanges[i] <= 1
    /\ (frame[i].exchange.k = "throw") =>
          /\ pc[i] = "done"
          /\ exchanges[i] = 1
          /\ response[i] =
               ErrorPayload("Error: Error: Failed to obtain access token: "
                            \o frame[i].exchange.error.message)

\* an invocation ended on a token request that was answered 401
C4_Witness ==
  \E i \in Invocations :
    /\ pc[i] = "done"
    /\ frame[i].exchange.k = "throw"
    /\ "response" \in DOMAIN frame[i].exchange.error
    /\ response[i] =
         ErrorPayload("Error: Error: Failed to obtain access token: "
                      \o "Request failed with status code 401")

\* the list of missing variables the message must carry, per configuration
ExpectedMissingList ==
  CASE env.SAILPOINT_BASE_URL = "" /\ env.SAILPOINT_CLIENT_ID = ""
       /\ env.SAILPOINT_CLIENT_SECRET = "" ->
         "SAILPOINT_BASE_URL, SAILPOINT_CLIENT_ID, SAILPOINT_CLIENT_SECRET"
    [] env.SAILPOINT_BASE_URL = "" /\ env.SAILPOINT_CLIENT_ID = ""
       /\ env.SAILPOINT_CLIENT_SECRET # "" ->
         "SAILPOINT_BASE_URL, SAILPOINT_CLIENT_ID"
    [] env.SAILPOINT_BASE_URL = "" /\ env.SAILPOINT_CLIENT_ID # ""
       /\ env.SAILPOINT_CLIENT_SECRET = "" ->
         "SAILPOINT_BASE_URL, SAILPOINT_CLIENT_SECRET"
    [] env.SAILPOINT_BASE_URL = "" /\ env.SAILPOINT_CLIENT_ID # ""
       /\ env.SAILPOINT_CLIENT_SECRET # "" ->
         "SAILPOINT_BASE_URL"
    [] env.SAILPOINT_BASE_URL # "" /\ env.SAILPOINT_CLIENT_ID = ""
       /\ env.SAILPOINT_CLIENT_SECRET = "" ->
         "SAILPOINT_CLIENT_ID, SAILPOINT_CLIENT_SECRET"
    [] env.SAILPOINT_BASE_URL # "" /\ env.SAILPOINT_CLIENT_ID = ""
       /\ env.SAILPOINT_CLIENT_SECRET # "" ->
         "SAILPOINT_CLIENT_ID"
    [] env.SAILPOINT_BASE_URL # "" /\ env.SAILPOINT_CLIENT_ID # ""
       /\ env.SAILPOINT_CLIENT_SECRET = "" ->
         "SAILPOINT_CLIENT_SECRET"
    [] OTHER -> ""

\* C5: with the base URL, the client id or the client secret empty, every
\* invocation, the first and the later ones, whatever its tool name, ends
\* with the error whose list names each empty variable and no configured one
\* (the list is followed by the fixed advice text).
C5_MissingConfiguration ==
  \A i \in Invocations :
    (~ConfigValid /\ pc[i] # "idle") =>
      /\ pc[i] = "done"
      /\ response[i] =
           ErrorPayload("Error: Error: Missing required environment variables: "
                        \o ExpectedMissingList \o ". " \o CredentialsAdvice)

\* the second invocation of a recognized tool ended with the error that lists
\* the client id alone
C5_Witness ==
  \E i \in Invocations :
    /\ nCalls = 2
    /\ pc[i] = "done"
    /\ call[i].name = "get_role"
    /\ env.SAILPOINT_BASE_URL # ""
    /\ env.SAILPOINT_CLIENT_ID = ""
    /\ env.SAILPOINT_CLIENT_SECRET # ""
    /\ response[i].v.isError

\* getAccessToken returned a token to invocation i: the cached one, or the
\* one of a 2xx answer with a body
TokenObtained(i) ==
  \/ frame[i].exchange.k = "none"
  \/ frame[i].exchange.k = "return" /\ ~Nullish(frame[i].exchange.v)

\* C6 as stated: an invocation whose tool name is not in the static table
\* ends with the unknown-tool error naming that tool.
C6_UnknownToolAlways ==
  \A i \in Invocations :
    (pc[i] = "done" /\ call[i].name \notin ToolNames) =>
      response[i] = ErrorPayload("Error: Error: Unknown tool: " \o call[i].name)

\* C6, amended: with the configuration complete and a token obtained, an
\* invocation whose tool name is not in the static table ends with the
\* unknown-tool error naming that tool.
C6_UnknownTool ==
  \A i \in Invocations :
    (/\ pc[i] = "done"
     /\ call[i].name \notin ToolNames
     /\ ConfigValid
     /\ TokenObtained(i)) =>
      response[i] = ErrorPayload("Error: Error: Unknown tool: " \o call[i].name)

\* an invocation of delete_identity got a fresh token and ended with the
\* unknown-tool error
C6_Witness ==
  \E i \in Invocations :
    /\ pc[i] = "done"
    /\ call[i].name = "delete_identity"
    /\ exchanges[i] = 1
    /\ frame[i].token = Str("tokA")
    /\ response[i] = ErrorPayload("Error: Error: Unknown tool: delete_identity")

\* the list_* and get_* tools
ReadTools ==
  { "list_identities", "get_identity", "list_accounts", "get_account",
    "get_account_entitlements", "list_access_profiles", "get_access_profile",
    "list_roles", "get_role", "get_role_assigned_identities",
    "list_certifications", "get_certification", "list_certification_campaigns",
    "get_certification_campaign", "list_workflows", "get_workflow",
    "get_workflow_executions", "list_sources", "get_source", "list_entitlements",
    "get_entitlement", "list_access_requests", "list_identity_profiles",
    "get_identity_profile", "list_sod_policies", "get_sod_policy",
    "list_sod_violations" }

\* the create, enable, disable, unlock, test and search tools
WriteTools ==
  { "create_access_profile", "create_role", "create_access_request",
    "enable_account", "disable_account", "unlock_account", "test_workflow",
    "search", "search_aggregate" }

\* the strings a path parameter of the call may have been filled with
PathArguments(args) ==
  {ToStr(Get(args, a)) : a \in {"id", "accountId", "roleId", "workflowId"}}

\* C7: the request handleTool issues for a recognized tool has the method and
\* the path of that tool's row of the documented endpoint table (the version
\* segment substituted, {id} filled from the arguments), GET for the list_*
\* and get_* tools and POST for the others, whatever the arguments.
C7_EndpointTable ==
  /\ ToolNames = ReadTools \cup WriteTools
  /\ Shaped =>
       LET r == shaped.out.v
           d == DocEndpoint(shaped.name)
       IN /\ r.method = d.method
          /\ shaped.name \in ReadTools => r.method = "GET"
          /\ shaped.name \in WriteTools => r.method = "POST"
          /\ Len(r.path) = Len(d.path)
          /\ \A n \in 1..Len(d.path) :
               IF d.path[n] = "{id}"
               THEN r.path[n] \in PathArguments(shaped.arguments)
               ELSE r.path[n] = (IF n = 1 THEN env.SAILPOINT_API_VERSION
                                 ELSE d.path[n])

\* get_workflow_executions dispatched for workflow i1 under version v2025
C7_Witness ==
  /\ Shaped
  /\ shaped.name = "get_workflow_executions"
  /\ shaped.out.v.method = "GET"
  /\ shaped.out.v.path = <<"v2025", "workflows", "i1", "executions">>

\* C8: an invocation issues at most one domain request, and exactly one when
\* the configuration is complete, a token was obtained and the tool name is
\* recognized.
C8_OneDomainRequest ==
  \A i \in Invocations :
    /\ domainCalls[i] <= 1
    /\ (/\ pc[i] = "done"
        /\ ConfigValid
        /\ TokenObtained(i)
        /\ call[i].name \in ToolNames) => domainCalls[i] = 1

\* C9: a domain request carries "Bearer <t>", t being the token getAccessToken
\* returned to the invocation, a non-empty string.
C9_BearerToken ==
  \A i \in Invocations :
    request[i].k = "request" =>
      /\ frame[i].token.k = "string"
      /\ frame[i].token.v # ""
      /\ request[i].authorization = Str("Bearer " \o frame[i].token.v)

\* C10: every optional argument present in the call of a list-style tool is in
\* the query parameters with its value; list_identities with limit 50 and
\* offset 0 is sent with exactly limit=50 and offset=0.
C10_PresentArgumentsCopied ==
  (Shaped /\ shaped.out.v.method = "GET" /\ ToolCase(shaped.name).hasParams) =>
    /\ \A n \in 1..Len(ToolCase(shaped.name).query) :
         Get(shaped.arguments, ToolCase(shaped.name).query[n][1]) # Undefined =>
           Get(shaped.out.v.params, ToolCase(shaped.name).query[n][2])
             = Get(shaped.arguments, ToolCase(shaped.name).query[n][1])
    /\ (/\ shaped.name = "list_identities"
        /\ shaped.arguments = Obj(<<Entry("limit", Num(50)), Entry("offset", Num(0))>>))
       => shaped.out.v.params
            = Obj(<<Entry("limit", Num(50)), Entry("offset", Num(0))>>)

\* the list-style tools: the cases that copy optional arguments into params
\* and send them with api.get
ListStyleTools == {t \in ToolNames : ToolCase(t).hasParams /\ Method(t) = "GET"}

\* C11: a list-style tool called with none of the optional arguments it
\* copies is sent with an empty query-parameter object: no key is present,
\* with or without a value.
C11_NoOptionalArguments ==
  (/\ Shaped
   /\ shaped.name \in ListStyleTools
   /\ \A n \in 1..Len(ToolCase(shaped.name).query) :
        Get(shaped.arguments, ToolCase(shaped.name).query[n][1]) = Undefined)
  => shaped.out.v.params = Obj(<<>>)

\* get_account_entitlements dispatched with its path argument alone
C11_Witness ==
  /\ Shaped
  /\ shaped.name = "get_account_entitlements"
  /\ Get(shaped.arguments, "accountId") = Str("i1")
  /\ Get(shaped.arguments, "filters") = Str("")
  /\ shaped.out.v.path = <<"v3", "accounts", "i1", "entitlements">>
  /\ shaped.out.v.params = Obj(<<>>)
  /\ Cardinality(ListStyleTools) = 16

\* the success payload carrying text: one text item, no error flag
SuccessPayload(text) == Returned([content |-> <<[type |-> "text", text |-> text]>>])

\* C12: for every recognized tool other than search, the success payload is
\* the upstream response body serialised as JSON text, with no field added,
\* removed or rewritten.
C12_PassThrough ==
  [][\A i \in Invocations : \A res \in DomainResponses :
       (/\ call[i].name \in ToolNames \ {"search"}
        /\ DomainResponse(i, res))
       => response'[i] = SuccessPayload(JSONStringify(res.data))]_vars

\* list_identities ended with the upstream array as JSON text
C12_Witness ==
  \E i \in Invocations :
    /\ pc[i] = "done"
    /\ call[i].name = "list_identities"
    /\ response[i] =
         SuccessPayload(Str("[\n  {\n    \"id\": \"i1\",\n    \"name\": \"Ann\"\n  }\n]"))

\* the keys of an object, in insertion order
KeysOf(o) == [n \in 1..Len(o.v) |-> o.v[n].key]

\* "key in o"
Has(o, key) == \E n \in 1..Len(o.v) : o.v[n].key = key

\* C13: the body of create_access_request has requestType GRANT_ACCESS when
\* the caller gives none and the caller's value when one of the declared
\* values is given; requestedFor and requestedItems are the caller's values.
C13_RequestTypeDefault ==
  (Shaped /\ shaped.name = "create_access_request") =>
    LET a == shaped.arguments
        b == shaped.out.v.body
    IN /\ KeysOf(b) = <<"requestedFor", "requestedItems", "requestType">>
       /\ ~Has(a, "requestType") => Get(b, "requestType") = Str("GRANT_ACCESS")
       /\ Get(a, "requestType") \in {Str("GRANT_ACCESS"), Str("REVOKE_ACCESS")}
            => Get(b, "requestType") = Get(a, "requestType")
       /\ Get(b, "requestedFor") = Get(a, "requestedFor")
       /\ Get(b, "requestedItems") = Get(a, "requestedItems")

\* the call of the end-to-end scenario: no requestType, the grant default
C13_Witness ==
  /\ Shaped
  /\ shaped.name = "create_access_request"
  /\ ~Has(shaped.arguments, "requestType")
  /\ Get(shaped.arguments, "requestedFor") = Arr(<<Str("id1")>>)
  /\ shaped.out.v.method = "POST"
  /\ shaped.out.v.body =
       Obj(<<Entry("requestedFor", Arr(<<Str("id1")>>)),
             Entry("requestedItems",
                   Arr(<<Obj(<<Entry("type", Str("ROLE")), Entry("id", Str("r1"))>>)>>)),
             Entry("requestType", Str("GRANT_ACCESS"))>>)

\* C14: the path of every request of a recognized tool starts with the
\* segment of the configured API version: the alternate revision when one is
\* selected and never the baseline v3 then, the baseline when none is; the
\* segments after it are those of the case's path, whatever the arguments.
C14_VersionSegment ==
  Shaped =>
    LET p == shaped.out.v.path
        t == FillPath(ToolCase(shaped.name).path, shaped.arguments)
    IN /\ p[1] = env.SAILPOINT_API_VERSION
       /\ env.SAILPOINT_API_VERSION = "v2025" => p[1] # "v3"
       /\ t[1] = "v3"
       /\ Len(p) = Len(t)
       /\ \A n \in 2..Len(p) : p[n] = t[n]

\* enable_account for the account whose id is "v3", under version v2025
C14_Witness ==
  /\ Shaped
  /\ env.SAILPOINT_API_VERSION = "v2025"
  /\ shaped.name = "enable_account"
  /\ shaped.out.v.path = <<"v2025", "accounts", "v3", "enable">>

\* C15: after a credential exchange answered with a body, the stored expiry
\* is the time getAccessToken read at entry plus the answer's expires_in
\* seconds whenever the answer carries one, and plus 720 seconds only when
\* it carries none.
C15_StoredExpiry ==
  \A i \in Invocations :
    (frame[i].exchange.k = "return" /\ ~Nullish(frame[i].exchange.v)) =>
      tokenExpiry =
        frame[i].now
        + 1000 * (IF Has(frame[i].exchange.v, "expires_in")
                  THEN Get(frame[i].exchange.v, "expires_in").v
                  ELSE 720)

\* shapes of an upstream error body
HasMessagesList(data) == ~Nullish(data) /\ Get(data, "messages").k = "array"
HasMessage(data) ==
  ~Nullish(data) /\ Get(data, "message").k = "string" /\ Get(data, "message").v # ""
HasDetailCode(data) ==
  ~Nullish(data) /\ Get(data, "detailCode").k = "string"
  /\ Get(data, "detailCode").v # ""
\* a messages list of objects, each with a text
MessageObjects(data) ==
  /\ HasMessagesList(data)
  /\ \A n \in 1..Len(Get(data, "messages").v) :
       Get(Get(data, "messages").v[n], "text").k = "string"
\* the texts of such a list
Texts(data) ==
  [n \in 1..Len(Get(data, "messages").v) |-> Get(Get(data, "messages").v[n], "text").v]

\* invocation i gets the non-2xx answer e to its domain request in this step
HttpFailure(i, e) == "response" \in DOMAIN e /\ DomainError(i, e)

\* C16: a non-2xx answer whose body carries a messages list is reported as
\* the texts of the messages joined with "; ", whether or not the body also
\* carries message and detailCode; a body with message and detailCode and no
\* messages list is reported as "<detailCode>: <message>".
C16_StructuredBody ==
  [][\A i \in Invocations : \A e \in DomainErrors :
       HttpFailure(i, e) =>
         /\ MessageObjects(e.response.data) =>
              response'[i]
                = ErrorPayload("Error: " \o JoinStr(Texts(e.response.data), "; "))
         /\ (/\ ~HasMessagesList(e.response.data)
             /\ HasMessage(e.response.data)
             /\ HasDetailCode(e.response.data)) =>
              response'[i]
                = ErrorPayload("Error: " \o Get(e.response.data, "detailCode").v
                               \o ": " \o Get(e.response.data, "message").v)]_vars

\* an invocation ended on the body {messages: [{text: A}, {text: B}]}
C16_Witness ==
  \E i \in Invocations :
    /\ pc[i] = "done"
    /\ domainCalls[i] = 1
    /\ response[i] = ErrorPayload("Error: A; B")

\* the rendering "HTTP <status>: <message>" of a non-2xx answer
HttpStatusText(e) ==
  "Error: HTTP " \o NatToStr(e.response.status) \o ": " \o e.message

C18_TransportMessage ==
  [][\A i \in Invocations : \A e \in DomainErrors :
       (DomainError(i, e) /\ "response" \notin DOMAIN e)
       => response'[i] = ErrorPayload("Error: " \o e.message)]_vars

\* C19: the request of the search tool always carries count=true, with the
\* caller's limit or without one, and its success payload is the object
\* {results: upstream body, totalCount: upstream x-total-count header}.
C19_SearchEnvelope ==
  /\ [](\A i \in Invocations :
          (request[i].k = "request" /\ call[i].name = "search") =>
            /\ Get(request[i].params, "count") = Bool(TRUE)
            /\ request[i].params =
                 (IF Has(call[i].arguments, "limit")
                  THEN Obj(<<Entry("limit", Get(call[i].arguments, "limit")),
                             Entry("count", Bool(TRUE))>>)
                  ELSE Obj(<<Entry("count", Bool(TRUE))>>)))
  /\ [][\A i \in Invocations : \A res \in DomainResponses :
          (call[i].name = "search" /\ DomainResponse(i, res)) =>
            response'[i] =
              SuccessPayload(JSONStringify(
                Obj(<<Entry("results", res.data),
                      Entry("totalCount", Get(res.headers, "x-total-count"))>>)))]_vars

\* a search with limit 50 ended with the upstream array and the count header
C19_Witness ==
  \E i \in Invocations :
    /\ pc[i] = "done"
    /\ call[i].name = "search"
    /\ request[i].k = "request"
    /\ request[i].params = Obj(<<Entry("limit", Num(50)), Entry("count", Bool(TRUE))>>)
    /\ response[i] =
         SuccessPayload(Str("{\n  \"results\": [\n    {\n      \"id\": \"i1\",\n"
                            \o "      \"name\": \"Ann\"\n    }\n  ],\n"
                            \o "  \"totalCount\": \"1\"\n}"))

\* C20: create_access_profile and create_role send owner as {id: ownerId,
\* type: IDENTITY}, the former also source as {id: sourceId, type: SOURCE};
\* a given id list becomes the list of {id, type: ENTITLEMENT} (of {id, type:
\* ACCESS_PROFILE} for a role), same length and order; description,
\* requestable and the list are in the body only if the caller passed them,
\* and a requestable of false is in the body.
C20_NestedReferences ==
  (Shaped /\ shaped.name \in {"create_access_profile", "create_role"}) =>
    LET a == shaped.arguments
        b == shaped.out.v.body
        profile == shaped.name = "create_access_profile"
        listArg == IF profile THEN "entitlementIds" ELSE "accessProfileIds"
        listKey == IF profile THEN "entitlements" ELSE "accessProfiles"
        type == IF profile THEN "ENTITLEMENT" ELSE "ACCESS_PROFILE"
    IN /\ Get(b, "owner") = Obj(<<Entry("id", Get(a, "ownerId")),
                                  Entry("type", Str("IDENTITY"))>>)
       /\ profile => Get(b, "source") = Obj(<<Entry("id", Get(a, "sourceId")),
                                              Entry("type", Str("SOURCE"))>>)
       /\ ~profile => ~Has(b, "source")
       /\ Has(a, listArg) =>
            /\ Get(b, listKey).k = "array"
            /\ Len(Get(b, listKey).v) = Len(Get(a, listArg).v)
            /\ \A n \in 1..Len(Get(a, listArg).v) :
                 Get(b, listKey).v[n]
                   = Obj(<<Entry("id", Get(a, listArg).v[n]), Entry("type", Str(type))>>)
       /\ Has(b, listKey) => Has(a, listArg)
       /\ Has(b, "description") =>
            Has(a, "description") /\ Get(b, "description") = Get(a, "description")
       /\ Has(b, "requestable") =>
            Has(a, "requestable") /\ Get(b, "requestable") = Get(a, "requestable")
       /\ Get(a, "requestable") = Bool(FALSE) =>
            Has(b, "requestable") /\ Get(b, "requestable") = Bool(FALSE)

\* create_access_profile with two entitlement ids, requestable false and no
\* description
C20_Witness ==
  /\ Shaped
  /\ shaped.name = "create_access_profile"
  /\ Get(shaped.arguments, "entitlementIds") = Arr(<<Str("e2"), Str("e1")>>)
  /\ shaped.out.v.body =
       Obj(<<Entry("name", Str("n1")),
             Entry("source", Obj(<<Entry("id", Str("s1")), Entry("type", Str("SOURCE"))>>)),
             Entry("owner", Obj(<<Entry("id", Str("o1")), Entry("type", Str("IDENTITY"))>>)),
             Entry("requestable", Bool(FALSE)),
             Entry("entitlements",
                   Arr(<<Obj(<<Entry("id", Str("e2")), Entry("type", Str("ENTITLEMENT"))>>),
                         Obj(<<Entry("id", Str("e1")), Entry("type", Str("ENTITLEMENT"))>>)>>))>>)

\* C21: a discovery call returns the tool catalogue, the same after any
\* earlier calls and with the configuration missing; it never fails, issues
\* no credential exchange and no domain request, and leaves the token cache
\* as it was.
C21_Discovery ==
  /\ [](\A i \in Invocations :
          (pc[i] = "done" /\ call[i] = ListCall) =>
            /\ response[i] = Returned([tools |-> ToolCatalogue])
            /\ exchanges[i] = 0
            /\ domainCalls[i] = 0
            /\ request[i] = NoRequest)
  /\ [][\A i \in Invocations :
          (pc[i] = "idle" /\ call'[i] = ListCall) =>
            /\ pc'[i] = "done"
            /\ accessToken' = accessToken
            /\ tokenExpiry' = tokenExpiry
            /\ apiClient' = apiClient
            /\ clients' = clients]_vars
  /\ [](\A i \in {"c1"} :
          (server.state = "running" /\ pc[i] = "idle" /\ nCalls < MaxCalls)
            => ENABLED ListTools(i))

\* the third call is a discovery call, answered with the catalogue while a
\* token obtained by an earlier call is cached
C21_Witness ==
  \E i \in Invocations :
    /\ nCalls = 3
    /\ pc[i] = "done"
    /\ call[i] = ListCall
    /\ accessToken = Str("tokA")
    /\ Len(response[i].v.tools) = 36

C27_StepOrder ==
  \A i \in Invocations :
    /\ ~ConfigValid => exchanges[i] = 0 /\ domainCalls[i] = 0
    /\ frame[i].exchange.k = "throw" => domainCalls[i] = 0
    /\ domainCalls[i] > 0 =>
         /\ ConfigValid
         /\ TokenObtained(i)
         /\ frame[i].api # NoClient
         /\ request[i].authorization = Str("Bearer " \o ToStr(frame[i].token))
    /\ (pc[i] # "idle" /\ call[i].name \notin ToolNames) => domainCalls[i] = 0
    /\ (pc[i] = "done"
        /\ response[i] = ErrorPayload("Error: Error: Unknown tool: " \o call[i].name)) =>
         /\ ConfigValid
         /\ TokenObtained(i)
         /\ frame[i].api # NoClient
    /\ response[i] # NoResponse => pc[i] = "done"

\* an unknown name cost a credential exchange and no domain request
C27_Witness ==
  \E i \in Invocations :
    /\ pc[i] = "done"
    /\ call[i].name = "LIST_IDENTITIES"
    /\ exchanges[i] = 1
    /\ domainCalls[i] = 0
    /\ frame[i].exchange.k = "return"
    /\ response[i] = ErrorPayload("Error: Error: Unknown tool: LIST_IDENTITIES")

\* C28: the cached token value and expiry change only in the step in which
\* a credential exchange is answered 2xx with a body; a configuration error,
\* a failed exchange, an unknown tool name, an answered and a failed domain
\* request (an upstream 401 included) leave both as they were.
C28_CacheFrame ==
  [][/\ (accessToken' # accessToken \/ tokenExpiry' # tokenExpiry) =>
          \E i \in Invocations :
            /\ pc[i] = "token"
            /\ frame'[i].exchange.k = "return"
            /\ ~Nullish(frame'[i].exchange.v)
     /\ \A i \in Invocations :
          (\/ pc[i] = "domain"
           \/ pc[i] = "import"
           \/ pc[i] = "done"
           \/ (pc[i] = "token" /\ frame'[i].exchange.k = "throw")
           \/ (pc[i] = "idle" /\ pc'[i] = "done")) =>
            (accessToken' = accessToken /\ tokenExpiry' = tokenExpiry)]_vars

\* a domain request was answered 401 and the token it carried is still cached
C28_Witness ==
  \E i \in Invocations :
    /\ pc[i] = "done"
    /\ response[i] = ErrorPayload("Error: HTTP 401: Request failed with status code 401")
    /\ request[i].authorization = Str("Bearer tokA")
    /\ accessToken = Str("tokA")
    /\ tokenExpiry = frame[i].now + 61000

\* the names listed in the catalogue
Listed == {ToolCatalogue[n] : n \in 1..Len(ToolCatalogue)}

\* C30: the names of the catalogue are pairwise distinct; a call whose name
\* is listed never reaches the unknown-tool branch of handleTool, and a call
\* whose name is not listed always does.
C30_CatalogueMatchesSwitch ==
  /\ \A m, n \in 1..Len(ToolCatalogue) :
       m # n => ToolCatalogue[m] # ToolCatalogue[n]
  /\ shaped.out # NotShaped =>
       (shaped.name \in Listed
          <=> shaped.out # Throw(NewError("Unknown tool: " \o shaped.name)))

\* the last tool of the catalogue was dispatched and a request came out
C30_Witness ==
  /\ Shaped
  /\ shaped.name = ToolCatalogue[36]
  /\ shaped.name = "list_sod_violations"
  /\ Cardinality(Listed) = 36

\* C26: at most one client instance is ever created, and every domain
\* request goes through it.
C26_SingletonClient ==
  /\ Len(clients) <= 1
  /\ \A i \in Invocations : request[i].k = "request" => request[i].client = 1

\* the answer of the credential exchange of invocation i carries a token
GotToken(fr) ==
  /\ fr.exchange.k = "return"
  /\ ~Nullish(fr.exchange.v)
  /\ Get(fr.exchange.v, "access_token").k = "string"
  /\ Get(fr.exchange.v, "access_token").v # ""

\* the expiry the answer of invocation i's exchange yields (index.ts 86-87)
ExpiryOf(fr) ==
  fr.now + 1000 * OrElse(Get(fr.exchange.v, "expires_in"), Num(720)).v

\* C25: with invocations overlapping in any way, each issues at most one
\* credential exchange of its own; an invocation whose exchange is answered
\* with a token goes on with that token and its domain request carries it,
\* whatever the other invocation wrote to the cache meanwhile; every answer
\* with a token overwrites the cached value and expiry together, and nothing
\* else changes them, so the cache ends as the last processed answer left it.
C25_ConcurrentRefresh ==
  /\ [](\A i \in Invocations :
          /\ exchanges[i] <= 1
          /\ (pc[i] \in {"import", "domain"} /\ GotToken(frame[i])) =>
               frame[i].token = Get(frame[i].exchange.v, "access_token")
          /\ (request[i].k = "request" /\ GotToken(frame[i])) =>
               request[i].authorization
                 = Str("Bearer " \o Get(frame[i].exchange.v, "access_token").v)
          /\ (request[i].k = "request" /\ frame[i].exchange.k = "none") =>
               /\ frame[i].token.k = "string"
               /\ frame[i].token.v # ""
               /\ request[i].authorization = Str("Bearer " \o frame[i].token.v)
          /\ (pc[i] = "done" /\ GotToken(frame[i])) => domainCalls[i] = 1)
  /\ [][\A i \in Invocations :
          (pc[i] = "token" /\ GotToken(frame'[i])) =>
            /\ accessToken' = Get(frame'[i].exchange.v, "access_token")
            /\ tokenExpiry' = ExpiryOf(frame'[i])]_vars
  /\ [][(accessToken' # accessToken \/ tokenExpiry' # tokenExpiry) =>
          \E i \in Invocations :
            pc[i] = "token" /\ frame'[i].exchange.k = "return"]_vars

\* both invocations found no token and refreshed; the first went on with
\* tokA, the answer processed last left tokB and its expiry in the cache
C25_Witness ==
  /\ pc["c1"] = "done"
  /\ pc["c2"] = "done"
  /\ exchanges["c1"] = 1
  /\ exchanges["c2"] = 1
  /\ request["c1"].k = "request"
  /\ request["c2"].k = "request"
  /\ request["c1"].authorization = Str("Bearer tokA")
  /\ request["c2"].authorization = Str("Bearer tokB")
  /\ accessToken = Str("tokB")
  /\ tokenExpiry = frame["c2"].now + 60000
  /\ frame["c1"].now = 1000
  /\ frame["c2"].now = 0

\* the value/expiry pairs one exchange answer can leave in the cache
CachePairs ==
  { <<Get(data, "access_token"),
      1000 * t + 1000 * OrElse(Get(data, "expires_in"), Num(720)).v>> :
      data \in ExchangeBodies \ {Null}, t \in 0..MaxNow }

\* C29: in every state the cached value and expiry are those of one and the
\* same exchange answer (or the initial empty pair), and once a non-empty
\* token is cached no step leaves the cache without one.
C29_CachePairing ==
  /\ [](\/ accessToken = Null /\ tokenExpiry = 0
        \/ <<accessToken, tokenExpiry>> \in CachePairs)
  /\ [][(accessToken.k = "string" /\ accessToken.v # "") =>
          (accessToken'.k = "string" /\ accessToken'.v # "")]_vars

\* C24: every invocation eventually returns a response: an invocation that
\* waits for the token endpoint, for the creation of the client or for the
\* domain request is eventually done, every upstream request being answered
\* or ended by the transport's timeout.
C24_EventuallyReturns ==
  \A i \in {"c1"} : (pc[i] \in {"token", "import", "domain"}) ~> (pc[i] = "done")

\* C22: two runs that differ only in client id, client secret and bearer
\* token and receive the same upstream failure (body, status, transport
\* message) at the same stage give the caller the same outcome, error text
\* included.
C22_SecretIndependence ==
  shaped.out # NotShaped => shaped.out.left = shaped.out.right

C22_Witness ==
  /\ shaped.out # NotShaped
  /\ shaped.stage = "domain"
  /\ shaped.error = HttpError(401, Obj(<<Entry("error", Str("invalid_token"))>>))
  /\ shaped.left.SAILPOINT_CLIENT_ID # shaped.right.SAILPOINT_CLIENT_ID
  /\ shaped.left.SAILPOINT_CLIENT_SECRET # shaped.right.SAILPOINT_CLIENT_SECRET
  /\ shaped.left.token # shaped.right.token
  /\ shaped.out.left = ErrorPayload("Error: HTTP 401: Request failed with status code 401")
  /\ shaped.out.right = shaped.out.left

====
